---- MODULE Spec2Model ----
(***************************************************************************)
(* State-machine model of the SoundLike backend (backend/main.go): the     *)
(* request handlers that touch the SQLite metadata store, the uploads/     *)
(* blob directory and the notification goroutines.                         *)
(*                                                                         *)
(* Store semantics.  The database is opened in WAL mode (main.go:438) and  *)
(* every handler uses its own pooled connection.  A statement run with     *)
(* db.Exec / db.QueryRow is one autocommit transaction.  A db.Begin()      *)
(* transaction is DEFERRED: its first read pins a snapshot, its first      *)
(* write takes the single write lock, and a write from a snapshot that     *)
(* another connection has since changed fails (SQLITE_BUSY_SNAPSHOT).      *)
(* Writers are exclusive and their intermediate states are invisible, so   *)
(* the write statements of one transaction together with its commit are    *)
(* one step here; the statement at which a store failure strikes is an     *)
(* input of that step.                                                     *)
(***************************************************************************)
EXTENDS Integers, FiniteSets, Sequences, TLC

\* ------------------------------------------------------------- bounds
NumUsers == 2
NumProcs == 2
MaxUploads == 2
MaxComments == 1
MaxTargetId == 1
MaxUnits == 1

Users == 1..NumUsers
Procs == 1..NumProcs
TrackIds == 1..MaxUploads
BlobNames == 1..MaxUploads
\* the track ids that like and comment requests name in their URL
TargetIds == 1..MaxTargetId
NoUser == 0
NoTrack == 0
\* display names; NoName is the empty name
Names == 1..NumUsers
NoName == 0

VARIABLES
    db,        \* the committed metadata store: tracks, likes, follows, comments, user_settings
    blobs,     \* names of the files in uploads/
    nextUuid,  \* the next name uuid.New() returns
    rq,        \* per request slot: the handler's position and locals
    resp,      \* the response written by the last step, NoResp when it wrote none
    units,     \* notification goroutines spawned and not yet finished
    rmFailed,  \* history: the files in uploads/ that an os.Remove failed to remove
    auth       \* the identity provider: per user the display name it stores (name) and
               \* the name claim of the ID token the user presents (token)

vars == <<db, blobs, nextUuid, rq, resp, units, rmFailed, auth>>

\* ------------------------------------------------------------- tables
EmptyDb ==
    [ tracks   |-> {},
      likes    |-> [x \in Users \X TrackIds |-> 0],
      follows  |-> [x \in Users \X Users |-> 0],
      comments |-> {},
      settings |-> [u \in Users |-> "none"],
      nextTrackId   |-> 1,
      nextCommentId |-> 1 ]

TrackRow(id, fn, uid, name) == [id |-> id, filename |-> fn, uid |-> uid, name |-> name]
CommentRow(id, t, uid, name) == [id |-> id, track |-> t, uid |-> uid, name |-> name]

TracksOf(d, u) == {r \in d.tracks : r.uid = u}
TrackById(d, t) == {r \in d.tracks : r.id = t}
FilenamesOf(d, u) == {r.filename : r \in TracksOf(d, u)}
TrackIdsOf(d, u) == {r.id : r \in TracksOf(d, u)}

\* tracks.filename is UNIQUE
TrackInsertAllowed(d, fn) == \A r \in d.tracks : r.filename /= fn

\* Fault variant: the row stores the client's file name (here 0), not the generated one.
InsertTrackClientName(d, fn, uid, name) ==
    [d EXCEPT !.tracks = @ \cup {TrackRow(d.nextTrackId, 0, uid, name)},
              !.nextTrackId = @ + 1]

InsertTrack(d, fn, uid, name) ==
    [d EXCEPT !.tracks = @ \cup {TrackRow(d.nextTrackId, fn, uid, name)},
              !.nextTrackId = @ + 1]

\* ------------------------------------------------------- transactions
\* steps: the store after each statement of a transaction run on d;
\* k: 0 when every statement and the commit succeed, otherwise the number
\* of the statement that fails (Len(steps)+1 is the commit).  The deferred
\* tx.Rollback() undoes every statement already run.
\* Fault variant: a failed statement leaves the earlier ones applied.
TxResultPartial(d, steps, k) ==
    IF k = 0 THEN steps[Len(steps)] ELSE IF k = 1 THEN d ELSE steps[k - 1]

TxResult(d, steps, k) == IF k = 0 THEN steps[Len(steps)] ELSE d

\* Fault variant: the handler goes on after a failed statement or commit.
TxFailedIgnored(k) == FALSE

\* if _, err := tx.Exec(...); err != nil { return 500 }, and the same for
\* tx.Commit()
TxFailed(k) == k /= 0

\* Fault variant: a transaction's reads pin no snapshot.
InSnapshotNever(r) == FALSE

\* Connections whose pinned snapshot a commit by p makes stale.
InSnapshot(r) == r.pc \in {"da_tx", "lk_write"}

MarkStale(rqv, p, changed) ==
    [q \in Procs |->
        IF q /= p /\ changed /\ InSnapshot(rqv[q])
        THEN [rqv[q] EXCEPT !.stale = TRUE]
        ELSE rqv[q]]

\* ------------------------------------------------- the upload form
MaxTitleLen == 100
MaxArtistLen == 100
MaxLyricsLen == 10000
\* 15*1024*1024
MaxFileSize == 15728640

\* A text field by its length in code points and in UTF-8 bytes.
Text(chars, bytes) == [chars |-> chars, bytes |-> bytes]

\* A multipart form: the three text fields; whether a part named "file" is
\* there; its size, the extension of its name and the type that
\* http.DetectContentType gives for its first 512 bytes; and whether
\* file.Open, src.Read and src.Seek succeed.
\* Every field at the limit the handler still accepts.
LimitForm ==
    [title |-> Text(MaxTitleLen, MaxTitleLen), artist |-> Text(MaxArtistLen, MaxArtistLen),
     lyrics |-> Text(MaxLyricsLen, MaxLyricsLen), file |-> TRUE, size |-> MaxFileSize,
     ext |-> "MP3", sig |-> "application/octet-stream", readOk |-> TRUE]

\* The forms requests carry, by name: LimitForm, and LimitForm with one
\* field changed.  Requests and responses hold the name.
NoForm == "none"
FormNames ==
    {"limit", "noTitle", "longTitle", "wideTitle", "longArtist", "longLyrics",
     "noFile", "bigFile", "wav", "html", "unreadable"}
Form(k) ==
    CASE k = "noTitle"    -> [LimitForm EXCEPT !.title = Text(0, 0)]
      [] k = "longTitle"  -> [LimitForm EXCEPT !.title = Text(MaxTitleLen + 1, MaxTitleLen + 1)]
      [] k = "wideTitle"  -> [LimitForm EXCEPT !.title = Text(40, 120)]
      [] k = "longArtist" -> [LimitForm EXCEPT !.artist = Text(MaxArtistLen + 1, MaxArtistLen + 1)]
      [] k = "longLyrics" -> [LimitForm EXCEPT !.lyrics = Text(MaxLyricsLen + 1, MaxLyricsLen + 1)]
      [] k = "noFile"     -> [LimitForm EXCEPT !.file = FALSE]
      [] k = "bigFile"    -> [LimitForm EXCEPT !.size = MaxFileSize + 1]
      [] k = "wav"        -> [LimitForm EXCEPT !.ext = "wav"]
      [] k = "html"       -> [LimitForm EXCEPT !.sig = "text/html; charset=utf-8"]
      [] k = "unreadable" -> [LimitForm EXCEPT !.readOk = FALSE]
      [] OTHER            -> LimitForm

\* strings.ToLower(filepath.Ext(file.Filename)), without the dot
LowerExt(e) == IF e = "MP3" THEN "mp3" ELSE e

\* The types containing "text/", "application/javascript", "application/json"
\* or "application/xml", among those the forms carry.
DeniedTypes == {"text/html; charset=utf-8"}

\* Fault variant: no field of the form is checked.
UploadRejectionNone(v) == 0

\* The status of the first check of the form that fails, 0 when none does;
\* len() counts bytes.
UploadRejection(v) ==
    IF v.title.bytes = 0 THEN 400
    ELSE IF v.title.bytes > MaxTitleLen THEN 400
    ELSE IF v.artist.bytes > MaxArtistLen THEN 400
    ELSE IF v.lyrics.bytes > MaxLyricsLen THEN 400
    ELSE IF ~v.file THEN 400
    ELSE IF v.size > MaxFileSize THEN 400
    ELSE IF LowerExt(v.ext) /= "mp3" THEN 400
    ELSE IF ~v.readOk THEN 500
    ELSE IF v.sig \in DeniedTypes THEN 400
    ELSE 0

\* ------------------------------------------------------ request slots
IdleRq == [pc |-> "idle", u |-> NoUser, t |-> NoTrack, f |-> {}, ex |-> FALSE, stale |-> FALSE,
           name |-> NoName, ver |-> TRUE, form |-> NoForm]
\* A response: the handler, the HTTP status, the is_liked / is_following value
\* and likes_count of the body; and, not sent to the client, the request's
\* actor u, target t and blob names f, the presence ex a toggle read before
\* its write, the error the handler's write to the store ended with, and the
\* blob names rm the step called os.Remove on.  Of the request itself: ver,
\* the token's email_verified claim; bad, the path id or body did not parse;
\* name, the display name asked for; chars and bytes, the length of a
\* comment's content in code points and in UTF-8 bytes; form, the form of
\* an upload.  A goroutine's delivery attempt is recorded the same way, with
\* op "mail", the actor in u and the recipient in to.
NoResp == [op |-> "none", code |-> 0, val |-> FALSE, n |-> 0, err |-> "none",
           u |-> NoUser, t |-> NoTrack, f |-> {}, ex |-> FALSE, rm |-> {},
           ver |-> TRUE, bad |-> FALSE, name |-> NoName, chars |-> 0, bytes |-> 0,
           form |-> NoForm, to |-> NoUser]
Resp(op, code) == [NoResp EXCEPT !.op = op, !.code = code]
RespE(op, code, err) == [NoResp EXCEPT !.op = op, !.code = code, !.err = err]
RespV(op, code, val, n, err) == [NoResp EXCEPT !.op = op, !.code = code, !.val = val,
                                               !.n = n, !.err = err]

\* No user has set a display name yet.
FreshAuth == [name |-> [u \in Users |-> NoName], token |-> [u \in Users |-> NoName]]

\* Every user has set a display name of their own (POST /api/profile by each
\* user in turn on the empty store leads here) and holds a token issued since.
NamedAuth == [name |-> [u \in Users |-> u], token |-> [u \in Users |-> u]]

Init ==
    /\ db = EmptyDb
    /\ blobs = {}
    /\ nextUuid = 1
    /\ rq = [p \in Procs |-> IdleRq]
    /\ resp = NoResp
    /\ units = {}
    /\ rmFailed = {}
    /\ auth = NamedAuth

\* Fault variant: the email_verified claim is not looked at.
VerifiedUnchecked(ver) == TRUE

\* verified, ok := user.Claims["email_verified"].(bool); ok && verified
Verified(ver) == ver

\* Request slots are interchangeable: a new request takes the lowest free one.
FreeSlot(p) == rq[p].pc = "idle" /\ \A q \in Procs : q < p => rq[q].pc /= "idle"

\* A handler's last step: write the response, free the slot.
Finish(rqv, p, r) ==
    /\ rq' = [rqv EXCEPT ![p] = IdleRq]
    /\ resp' = [r EXCEPT !.u = IF rqv[p].u = NoUser THEN r.u ELSE rqv[p].u,
                         !.t = IF rqv[p].t = NoTrack THEN r.t ELSE rqv[p].t,
                         !.f = IF rqv[p].f = {} THEN r.f ELSE rqv[p].f,
                         !.ex = rqv[p].ex,
                         !.name = IF rqv[p].name = NoName THEN r.name ELSE rqv[p].name,
                         !.ver = r.ver /\ rqv[p].ver,
                         !.form = IF rqv[p].form = NoForm THEN r.form ELSE rqv[p].form]

\* A step that is not the handler's last.
Goto(rqv, p, r) ==
    /\ rq' = [rqv EXCEPT ![p] = r]
    /\ resp' = NoResp

\* os.Remove(name): removes the file, or fails and leaves things as they are
\* (on a file that is not there it fails).
RemoveBlob(name, ok) ==
    /\ blobs' = IF ok THEN blobs \ {name} ELSE blobs
    /\ rmFailed' = IF ok THEN rmFailed \ {name}
                   ELSE IF name \in blobs THEN rmFailed \cup {name} ELSE rmFailed

\* ------------------------------------------------ POST /api/upload
\* Fault variant: the error of os.Create is not looked at.
UploadWrittenCreateUnchecked(created, copied) == copied

\* The handler goes on to the INSERT only when neither call returned an error.
UploadWritten(created, copied) == created /\ copied

\* The checks, uuid.New(), os.Create(dstPath) and io.Copy(dst, src).  The new
\* name is in no row yet, so no other request can tell these calls apart: they
\* are one step.  When io.Copy fails the handler returns and the file stays.
\* Fault variant: the blob is named after the uploader.
BlobNameFromOwner(next, u, k) == u

\* uuid.New().String() + ".mp3": the name of the blob of an upload by u with
\* form k, when next is the next value of the generator.
BlobName(next, u, k) == next

UploadStart(p) ==
    /\ FreeSlot(p)
    /\ \E u \in Users, ver \in BOOLEAN :
        IF ~Verified(ver) \/ auth.token[u] = NoName
        THEN \* email_verified is not true, or the token carries no name
             /\ Finish(rq, p, [Resp("upload", 403) EXCEPT !.u = u, !.ver = ver])
             /\ UNCHANGED <<blobs, nextUuid>>
        ELSE \E k \in FormNames :
             IF UploadRejection(Form(k)) /= 0
             THEN \* a check of the form fails
                  /\ Finish(rq, p, [Resp("upload", UploadRejection(Form(k))) EXCEPT
                                        !.u = u, !.ver = ver, !.form = k])
                  /\ UNCHANGED <<blobs, nextUuid>>
             ELSE \E created \in BOOLEAN, copied \in BOOLEAN :
                  /\ nextUuid <= MaxUploads
                  /\ nextUuid' = nextUuid + 1
                  /\ blobs' = IF created THEN blobs \cup {BlobName(nextUuid, u, k)} ELSE blobs
                  /\ IF UploadWritten(created, copied)
                     THEN Goto(rq, p, [IdleRq EXCEPT !.pc = "up_insert", !.u = u,
                                                     !.f = {BlobName(nextUuid, u, k)}, !.name = auth.token[u],
                                                     !.ver = ver, !.form = k])
                     ELSE Finish(rq, p, [Resp("upload", 500) EXCEPT
                                            !.u = u, !.f = {BlobName(nextUuid, u, k)}, !.ver = ver, !.form = k])
    /\ UNCHANGED <<auth, db, units, rmFailed>>

\* Fault variant: the error of the INSERT is not looked at.
UploadInsertUnchecked(p) ==
    /\ rq[p].pc = "up_insert"
    /\ \E ok \in BOOLEAN, fn \in rq[p].f :
        LET d == IF ok /\ TrackInsertAllowed(db, fn)
                 THEN InsertTrack(db, fn, rq[p].u, rq[p].name) ELSE db
        IN  /\ db' = d
            /\ rq' = [MarkStale(rq, p, d /= db) EXCEPT ![p].pc = "up_spawn"]
    /\ resp' = NoResp
    /\ UNCHANGED <<auth, blobs, nextUuid, units, rmFailed>>

\* db.Exec(INSERT INTO tracks ...)
UploadInsert(p) ==
    /\ rq[p].pc = "up_insert"
    /\ \E ok \in BOOLEAN, fn \in rq[p].f :
        IF ok /\ TrackInsertAllowed(db, fn)
        THEN /\ db' = InsertTrack(db, fn, rq[p].u, rq[p].name)
             /\ rq' = [MarkStale(rq, p, TRUE) EXCEPT ![p].pc = "up_spawn"]
        ELSE /\ db' = db
             /\ rq' = [rq EXCEPT ![p].pc = "up_cleanup"]
    /\ resp' = NoResp
    /\ UNCHANGED <<auth, blobs, nextUuid, units, rmFailed>>

\* Fault variant: the failed insert is answered without the os.Remove.
UploadCleanupSkipped(p) ==
    /\ rq[p].pc = "up_cleanup"
    /\ Finish(rq, p, RespE("upload", 500, "store"))
    /\ UNCHANGED <<auth, db, blobs, nextUuid, units, rmFailed>>

\* os.Remove(dstPath) after a failed insert; its error is not looked at.
UploadCleanup(p) ==
    /\ rq[p].pc = "up_cleanup"
    /\ \E ok \in BOOLEAN, fn \in rq[p].f :
        /\ RemoveBlob(fn, ok)
        /\ Finish(rq, p, [RespE("upload", 500, "store") EXCEPT !.rm = {fn}])
    /\ UNCHANGED <<auth, db, nextUuid, units>>

\* Goroutines are unbounded in the program; the model holds MaxUnits at a time.
CanSpawn == Cardinality(units) < MaxUnits

\* A goroutine: what started it, the actor and the track it was given, where
\* it stands (new: spawned, nothing read yet), the recipients it still has
\* to look at, and the one it is about to mail.
Unit(kind, u, t) ==
    [kind |-> kind, by |-> u, t |-> t, pc |-> "new", aud |-> {}, to |-> NoUser]

UploadUnit(u) == Unit("upload", u, NoTrack)

\* go func(...){...}(user.UID, ...); return 200
UploadSpawn(p) ==
    /\ rq[p].pc = "up_spawn"
    /\ CanSpawn
    /\ units' = units \cup {UploadUnit(rq[p].u)}
    /\ Finish(rq, p, Resp("upload", 200))
    /\ UNCHANGED <<auth, db, blobs, nextUuid, rmFailed>>

\* ------------------------------------------- DELETE /api/track/:id
\* Fault variant: the uploader is not compared with the caller.
NotOwnerUnchecked(row, u) == FALSE

\* if track.UploaderUID != user.UID
NotOwner(row, u) == row.uid /= u

DelTrackStart(p) ==
    /\ FreeSlot(p)
    /\ \/ \* the SELECT fails
          Finish(rq, p, RespE("deleteTrack", 500, "store"))
       \/ \E u \in Users, t \in TrackIds :
          LET rows == TrackById(db, t) IN
          IF rows = {} THEN Finish(rq, p, [Resp("deleteTrack", 404) EXCEPT !.u = u, !.t = t])
          ELSE LET row == CHOOSE r \in rows : TRUE IN
               IF NotOwner(row, u)
               THEN Finish(rq, p, [Resp("deleteTrack", 403) EXCEPT !.u = u, !.t = t])
               ELSE Goto(rq, p, [IdleRq EXCEPT !.pc = "dt_tx", !.u = u, !.t = t,
                                               !.f = {row.filename}])
    /\ UNCHANGED <<auth, db, blobs, nextUuid, units, rmFailed>>

DeleteLikesOfTrack(d, t) ==
    [d EXCEPT !.likes = [x \in Users \X TrackIds |-> IF x[2] = t THEN 0 ELSE @[x]]]
DeleteCommentsOfTrack(d, t) ==
    [d EXCEPT !.comments = {c \in @ : c.track /= t}]
\* Fault variant: the DELETE on tracks has no WHERE clause.
DeleteEveryTrackRow(d, t) ==
    [d EXCEPT !.tracks = {}]

DeleteTrackRow(d, t) ==
    [d EXCEPT !.tracks = {r \in @ : r.id /= t}]

\* likes, then comments, then the track row
DelTrackSteps(d, t) ==
    LET d1 == DeleteLikesOfTrack(d, t)
        d2 == DeleteCommentsOfTrack(d1, t)
        d3 == DeleteTrackRow(d2, t)
    IN  <<d1, d2, d3>>

\* Fault variant: the file is removed between the statements and the commit.
DelTrackTxRemoving(p) ==
    /\ rq[p].pc = "dt_tx"
    /\ \E k \in 0..4 :
        LET d == TxResult(db, DelTrackSteps(db, rq[p].t), k) IN
        /\ db' = d
        /\ blobs' = IF k \in {0, 4} THEN blobs \ rq[p].f ELSE blobs
        /\ IF ~TxFailed(k)
           THEN /\ rq' = [MarkStale(rq, p, d /= db) EXCEPT ![p].pc = "dt_rm"]
                /\ resp' = NoResp
           ELSE Finish(MarkStale(rq, p, d /= db), p, Resp("deleteTrack", 500))
    /\ UNCHANGED <<auth, nextUuid, units, rmFailed>>

DelTrackTx(p) ==
    /\ rq[p].pc = "dt_tx"
    /\ \E k \in 0..4 :
        LET d == TxResult(db, DelTrackSteps(db, rq[p].t), k) IN
        /\ db' = d
        /\ IF ~TxFailed(k)
           THEN /\ rq' = [MarkStale(rq, p, d /= db) EXCEPT ![p].pc = "dt_rm"]
                /\ resp' = NoResp
           ELSE Finish(MarkStale(rq, p, d /= db), p, Resp("deleteTrack", 500))
    /\ UNCHANGED <<auth, blobs, nextUuid, units, rmFailed>>

\* os.Remove after the commit; a failure is logged only.
DelTrackRemove(p) ==
    /\ rq[p].pc = "dt_rm"
    /\ \E ok \in BOOLEAN, fn \in rq[p].f :
        /\ RemoveBlob(fn, ok)
        /\ Finish(rq, p, [Resp("deleteTrack", 200) EXCEPT !.rm = {fn}])
    /\ UNCHANGED <<auth, db, nextUuid, units>>

\* --------------------------------------------- DELETE /api/account
\* db.Begin(); tx.Query(SELECT filename FROM tracks WHERE uploader_uid = ?)
DelAcctStart(p) ==
    /\ FreeSlot(p)
    /\ \/ \* db.Begin() or the SELECT fails
          Finish(rq, p, RespE("deleteAccount", 500, "store"))
       \/ \E u \in Users :
          Goto(rq, p, [IdleRq EXCEPT !.pc = "da_tx", !.u = u, !.f = FilenamesOf(db, u)])
    /\ UNCHANGED <<auth, db, blobs, nextUuid, units, rmFailed>>

\* Fault variant: every like on a track the user liked is deleted.
DeleteLikesOnLikedTracks(d, u) ==
    [d EXCEPT !.likes = [x \in Users \X TrackIds |->
                            IF d.likes[<<u, x[2]>>] > 0 THEN 0 ELSE @[x]]]

DeleteLikesByUser(d, u) ==
    [d EXCEPT !.likes = [x \in Users \X TrackIds |-> IF x[1] = u THEN 0 ELSE @[x]]]
DeleteLikesOnUserTracks(d, u) ==
    [d EXCEPT !.likes = [x \in Users \X TrackIds |->
                            IF x[2] \in TrackIdsOf(d, u) THEN 0 ELSE @[x]]]
DeleteCommentsByUser(d, u) ==
    [d EXCEPT !.comments = {c \in @ : c.uid /= u}]
DeleteCommentsOnUserTracks(d, u) ==
    [d EXCEPT !.comments = {c \in @ : c.track \notin TrackIdsOf(d, u)}]
\* Fault variant: only the edges the user follows are deleted.
DeleteFollowsByUser(d, u) ==
    [d EXCEPT !.follows = [x \in Users \X Users |-> IF x[1] = u THEN 0 ELSE @[x]]]

DeleteFollowsOfUser(d, u) ==
    [d EXCEPT !.follows = [x \in Users \X Users |->
                            IF x[1] = u \/ x[2] = u THEN 0 ELSE @[x]]]
\* Fault variant: the DELETE on user_settings has no WHERE clause.
DeleteSettingsOfAll(d, u) ==
    [d EXCEPT !.settings = [v \in Users |-> "none"]]

DeleteSettingsOfUser(d, u) ==
    [d EXCEPT !.settings = [@ EXCEPT ![u] = "none"]]
DeleteTracksOfUser(d, u) ==
    [d EXCEPT !.tracks = {r \in @ : r.uid /= u}]

\* Fault variant: the user's track rows are deleted first.
DelAcctStepsTracksFirst(d, u) ==
    LET d1 == DeleteTracksOfUser(d, u)
        d2 == DeleteLikesByUser(d1, u)
        d3 == DeleteLikesOnUserTracks(d2, u)
        d4 == DeleteCommentsByUser(d3, u)
        d5 == DeleteCommentsOnUserTracks(d4, u)
        d6 == DeleteFollowsOfUser(d5, u)
        d7 == DeleteSettingsOfUser(d6, u)
    IN  <<d1, d2, d3, d4, d5, d6, d7>>

DelAcctSteps(d, u) ==
    LET d1 == DeleteLikesByUser(d, u)
        d2 == DeleteLikesOnUserTracks(d1, u)
        d3 == DeleteCommentsByUser(d2, u)
        d4 == DeleteCommentsOnUserTracks(d3, u)
        d5 == DeleteFollowsOfUser(d4, u)
        d6 == DeleteSettingsOfUser(d5, u)
        d7 == DeleteTracksOfUser(d6, u)
    IN  <<d1, d2, d3, d4, d5, d6, d7>>

DelAcctTx(p) ==
    /\ rq[p].pc = "da_tx"
    /\ \E k \in 0..8 :
        /\ rq[p].stale => k = 1
        /\ LET d == TxResult(db, DelAcctSteps(db, rq[p].u), k) IN
           /\ db' = d
           /\ IF ~TxFailed(k)
              THEN /\ rq' = [MarkStale(rq, p, d /= db) EXCEPT ![p].pc = "da_rm"]
                   /\ resp' = NoResp
              ELSE Finish(MarkStale(rq, p, d /= db), p,
                          RespE("deleteAccount", 500, IF rq[p].stale THEN "busy" ELSE "store"))
    /\ UNCHANGED <<auth, blobs, nextUuid, units, rmFailed>>

\* Fault variant: a failed os.Remove ends the request with 500.
DelAcctRemoveStopping(p) ==
    /\ rq[p].pc = "da_rm"
    /\ IF rq[p].f = {}
       THEN /\ Finish(rq, p, Resp("deleteAccount", 200))
            /\ UNCHANGED <<blobs, rmFailed>>
       ELSE \E ok \in BOOLEAN, fn \in rq[p].f :
                /\ RemoveBlob(fn, ok)
                /\ IF ok THEN /\ rq' = [rq EXCEPT ![p].f = @ \ {fn}]
                              /\ resp' = NoResp
                   ELSE Finish(rq, p, Resp("deleteAccount", 500))
    /\ UNCHANGED <<auth, db, nextUuid, units>>

\* for _, fname := range filenames { os.Remove(...) }; return 200
DelAcctRemove(p) ==
    /\ rq[p].pc = "da_rm"
    /\ IF rq[p].f = {}
       THEN /\ Finish(rq, p, Resp("deleteAccount", 200))
            /\ UNCHANGED <<blobs, rmFailed>>
       ELSE /\ \E ok \in BOOLEAN, fn \in rq[p].f :
                /\ RemoveBlob(fn, ok)
                /\ rq' = [rq EXCEPT ![p].f = @ \ {fn}]
            /\ resp' = NoResp
    /\ UNCHANGED <<auth, db, nextUuid, units>>

\* -------------------------------------------- notification goroutines
\* A spawned goroutine reads the store, may send mail, and ends; it writes
\* nothing to the store or to uploads/.  UnitFinish is its whole run as the
\* requests see it; UnitLookup, UnitCheck and UnitSend below are its steps.
UnitFinish ==
    /\ \E n \in units : n.pc = "new" /\ units' = units \ {n}
    /\ resp' = NoResp
    /\ UNCHANGED <<auth, db, blobs, nextUuid, rq, rmFailed>>

\* ------------------------------------------- POST /api/track/:id/like
LikeUnit(u, t) == Unit("like", u, t)
LikeExists(d, u, t) == d.likes[<<u, t>>] > 0
RECURSIVE SumLikes(_, _, _)
SumLikes(d, t, W) ==
    IF W = {} THEN 0
    ELSE LET w == CHOOSE x \in W : TRUE IN d.likes[<<w, t>>] + SumLikes(d, t, W \ {w})
\* SELECT COUNT(*) FROM likes WHERE track_id = ?
LikeCount(d, t) == SumLikes(d, t, Users)

\* GET /api/tracks, per listed track: (SELECT COUNT(*) FROM likes WHERE
\* track_id = t.id) and EXISTS(... AND user_uid = ?); the caller is NoUser
\* when the request carries no valid token.
ListLikesCount(d, t) == LikeCount(d, t)
ListIsLiked(d, t, caller) == caller /= NoUser /\ LikeExists(d, caller, t)

\* likes has UNIQUE(user_uid, track_id)
LikeInsertAllowed(d, u, t) == d.likes[<<u, t>>] = 0
InsertLike(d, u, t) == [d EXCEPT !.likes[<<u, t>>] = @ + 1]
DeleteLike(d, u, t) == [d EXCEPT !.likes[<<u, t>>] = 0]

\* db.Begin(); tx.QueryRow(SELECT EXISTS(...)): the read pins the snapshot.
LikeStart(p) ==
    /\ FreeSlot(p)
    /\ \/ \* strconv.Atoi(c.Param("id")) fails
          \E ver \in BOOLEAN :
          Finish(rq, p, [Resp("like", 400) EXCEPT !.bad = TRUE, !.ver = ver])
       \/ \E u \in Users, ver \in BOOLEAN :
          IF ~Verified(ver)
          THEN Finish(rq, p, [Resp("like", 403) EXCEPT !.u = u, !.ver = ver])
          ELSE \/ \* db.Begin() or the SELECT fails
                  Finish(rq, p, [RespE("like", 500, "store") EXCEPT !.u = u, !.ver = ver])
               \/ \E t \in TargetIds :
                  Goto(rq, p, [IdleRq EXCEPT !.pc = "lk_write", !.u = u, !.t = t, !.ver = ver,
                                             !.ex = LikeExists(db, u, t)])
    /\ UNCHANGED <<auth, db, blobs, nextUuid, units, rmFailed>>

\* The error the DELETE / INSERT and the commit of the like transaction end in:
\* k = 1 the statement fails in the store, k = 2 the commit fails.
LikeWriteError(d, r, k) ==
    IF r.stale THEN "busy"
    ELSE IF ~r.ex /\ ~LikeInsertAllowed(d, r.u, r.t) THEN "unique"
    ELSE IF k /= 0 THEN "store"
    ELSE "none"

\* if exists { DELETE } else { INSERT }; tx.Commit()
LikeWrite(p) ==
    /\ rq[p].pc = "lk_write"
    /\ \E k \in 0..2 :
        LET r == rq[p]
            e == LikeWriteError(db, r, k)
            d == IF r.ex THEN DeleteLike(db, r.u, r.t) ELSE InsertLike(db, r.u, r.t)
        IN  IF e = "none"
            THEN /\ db' = d
                 /\ rq' = [MarkStale(rq, p, d /= db) EXCEPT ![p].pc = "lk_reply"]
                 /\ resp' = NoResp
            ELSE /\ db' = db
                 /\ Finish(rq, p, RespE("like", 500, e))
    /\ UNCHANGED <<auth, blobs, nextUuid, units, rmFailed>>

\* Fault variant: the goroutine is started after every committed toggle.
SpawnsLikeUnitAlways(ex) == TRUE

\* if !exists { go func(){...}() }
SpawnsLikeUnit(ex) == ~ex

\* if !exists { go func(){...}() }; SELECT COUNT(*) (its error is ignored); 200
LikeReply(p) ==
    /\ rq[p].pc = "lk_reply"
    /\ \E ok \in BOOLEAN :
        LET r == rq[p] IN
        /\ SpawnsLikeUnit(r.ex) => CanSpawn
        /\ units' = IF SpawnsLikeUnit(r.ex) THEN units \cup {LikeUnit(r.u, r.t)} ELSE units
        /\ Finish(rq, p, RespV("like", 200, ~r.ex,
                               IF ok THEN LikeCount(db, r.t) ELSE 0, "none"))
    /\ UNCHANGED <<auth, db, blobs, nextUuid, rmFailed>>

\* ------------------------------------------ POST /api/user/:uid/follow
FollowExists(d, u, t) == d.follows[<<u, t>>] > 0

\* Fault variant: the follows table has no primary key.
FollowInsertUnconstrained(d, u, t) == TRUE

\* follows has PRIMARY KEY (follower_uid, following_uid)
FollowInsertAllowed(d, u, t) == d.follows[<<u, t>>] = 0
InsertFollow(d, u, t) == [d EXCEPT !.follows[<<u, t>>] = @ + 1]
DeleteFollow(d, u, t) == [d EXCEPT !.follows[<<u, t>>] = 0]

\* Fault variant: the handler does not compare the target with the caller.
SelfFollowUnchecked(u, t) == FALSE

\* if user.UID == targetUID
SelfFollow(u, t) == u = t

\* The self check, the email_verified check, then
\* db.QueryRow(SELECT EXISTS(...)) on the pool: no transaction is open.
FollowStart(p) ==
    /\ FreeSlot(p)
    /\ \E u \in Users, t \in Users, ver \in BOOLEAN :
        IF SelfFollow(u, t)
        THEN Finish(rq, p, [Resp("follow", 400) EXCEPT !.u = u, !.t = t, !.ver = ver])
        ELSE IF ~Verified(ver)
        THEN Finish(rq, p, [Resp("follow", 403) EXCEPT !.u = u, !.t = t, !.ver = ver])
        ELSE \/ \* the SELECT fails
                Finish(rq, p, [RespE("follow", 500, "store") EXCEPT !.u = u, !.t = t,
                                                                   !.ver = ver])
             \/ Goto(rq, p, [IdleRq EXCEPT !.pc = "fw_write", !.u = u, !.t = t, !.ver = ver,
                                           !.ex = FollowExists(db, u, t)])
    /\ UNCHANGED <<auth, db, blobs, nextUuid, units, rmFailed>>

FollowWriteError(d, r, ok) ==
    IF ~r.ex /\ ~FollowInsertAllowed(d, r.u, r.t) THEN "unique"
    ELSE IF ~ok THEN "store"
    ELSE "none"

\* The status the follow handler answers with after its DELETE / INSERT
\* returned the error e: err is assigned and never read.
FollowStatus(e) == 200

\* if exists { db.Exec(DELETE); return 200 false } else { db.Exec(INSERT); return 200 true }
FollowWrite(p) ==
    /\ rq[p].pc = "fw_write"
    /\ \E ok \in BOOLEAN :
        LET r == rq[p]
            e == FollowWriteError(db, r, ok)
            d == IF e /= "none" THEN db
                 ELSE IF r.ex THEN DeleteFollow(db, r.u, r.t) ELSE InsertFollow(db, r.u, r.t)
            code == FollowStatus(e)
        IN  /\ db' = d
            /\ Finish(MarkStale(rq, p, d /= db), p, RespV("follow", code, ~r.ex, 0, e))
    /\ UNCHANGED <<auth, blobs, nextUuid, units, rmFailed>>

\* ---------------------------------------- POST /api/track/:id/comment
CommentUnit(u, t) == Unit("comment", u, t)
InsertComment(d, t, u, name) ==
    [d EXCEPT !.comments = @ \cup {CommentRow(d.nextCommentId, t, u, name)},
              !.nextCommentId = @ + 1]

MaxCommentLen == 500

\* A comment's content, by its length in code points and in UTF-8 bytes:
\* empty, ASCII of 1, 500 and 501 characters, and 200 characters of three
\* bytes each.
Contents ==
    { [chars |-> 0, bytes |-> 0], [chars |-> 1, bytes |-> 1],
      [chars |-> 500, bytes |-> 500], [chars |-> 501, bytes |-> 501],
      [chars |-> 200, bytes |-> 600] }

\* len(req.Content) == 0 || len(req.Content) > 500 rejects; len counts bytes.
ContentAccepted(c) == c.bytes >= 1 /\ c.bytes <= MaxCommentLen

\* The checks, one INSERT on the pool, then the goroutine, then 200.
CommentPostWithin(p, cap) ==
    /\ FreeSlot(p)
    /\ \/ \* strconv.Atoi(c.Param("id")) fails
          /\ \E ver \in BOOLEAN :
              Finish(rq, p, [Resp("comment", 400) EXCEPT !.bad = TRUE, !.ver = ver])
          /\ UNCHANGED <<db, units>>
       \/ \* email_verified is not true, or the token carries no name
          /\ \E u \in Users, ver \in BOOLEAN :
              /\ ~Verified(ver) \/ auth.token[u] = NoName
              /\ Finish(rq, p, [Resp("comment", 403) EXCEPT !.u = u, !.ver = ver])
          /\ UNCHANGED <<db, units>>
       \/ \E u \in Users, t \in TargetIds, ver \in BOOLEAN :
          /\ Verified(ver) /\ auth.token[u] /= NoName
          /\ \/ \* c.Bind fails
                /\ Finish(rq, p, [Resp("comment", 400) EXCEPT !.bad = TRUE, !.u = u, !.t = t,
                                                             !.ver = ver])
                /\ UNCHANGED <<db, units>>
             \/ \E c \in Contents :
                LET r == [Resp("comment", 200) EXCEPT !.u = u, !.t = t, !.ver = ver,
                                                      !.chars = c.chars, !.bytes = c.bytes]
                IN  IF ~ContentAccepted(c)
                    THEN /\ Finish(rq, p, [r EXCEPT !.code = 400])
                         /\ UNCHANGED <<db, units>>
                    ELSE \/ \* the INSERT fails
                            /\ Finish(rq, p, [r EXCEPT !.code = 500, !.err = "store"])
                            /\ UNCHANGED <<db, units>>
                         \/ /\ db.nextCommentId <= cap
                            /\ CanSpawn
                            /\ db' = InsertComment(db, t, u, auth.token[u])
                            /\ units' = units \cup {CommentUnit(u, t)}
                            /\ Finish(MarkStale(rq, p, TRUE), p, r)
    /\ UNCHANGED <<auth, blobs, nextUuid, rmFailed>>

CommentPost(p) == CommentPostWithin(p, MaxComments)

\* ------------------------------------------- DELETE /api/comment/:id
\* The ids a request names: those of rows the store can hold, and one more.
CommentIds == 1..(MaxComments + 2)

\* Fault variant: the DELETE matches the id alone.
CommentMatchAnyAuthor(d, id, u) == {c \in d.comments : c.id = id}

\* The rows DELETE FROM comments WHERE id = ? AND user_uid = ? matches.
CommentMatch(d, id, u) == {c \in d.comments : c.id = id /\ c.uid = u}

\* Atoi, one DELETE on the pool, 403 when it affected no row, else 200; the
\* response carries the path id in t.
CommentDelete(p) ==
    /\ FreeSlot(p)
    /\ \/ \* strconv.Atoi(c.Param("id")) fails
          /\ Finish(rq, p, [Resp("uncomment", 400) EXCEPT !.bad = TRUE])
          /\ db' = db
       \/ \E u \in Users, id \in CommentIds :
          LET r == [Resp("uncomment", 200) EXCEPT !.u = u, !.t = id]
              m == CommentMatch(db, id, u)
          IN  \/ \* the DELETE fails
                 /\ Finish(rq, p, [r EXCEPT !.code = 500, !.err = "store"])
                 /\ db' = db
              \/ IF m = {}
                 THEN /\ Finish(rq, p, [r EXCEPT !.code = 403])
                      /\ db' = db
                 ELSE /\ db' = [db EXCEPT !.comments = @ \ m]
                      /\ Finish(MarkStale(rq, p, TRUE), p, r)
    /\ UNCHANGED <<auth, blobs, nextUuid, units, rmFailed>>

\* ------------------------------------------------ GET, POST /api/settings
\* GET: no row reads as true.
SettingsRead(d, u) == d.settings[u] /= "off"

UpsertSettings(d, u, on) == [d EXCEPT !.settings[u] = IF on THEN "on" ELSE "off"]

SettingsUpdate(p) ==
    /\ FreeSlot(p)
    /\ \/ \* the upsert fails
          /\ db' = db
          /\ Finish(rq, p, RespE("settings", 500, "store"))
       \/ \E u \in Users, on \in BOOLEAN :
          LET d == UpsertSettings(db, u, on) IN
          /\ db' = d
          /\ Finish(MarkStale(rq, p, d /= db), p, [Resp("settings", 200) EXCEPT !.u = u])
    /\ UNCHANGED <<auth, blobs, nextUuid, units, rmFailed>>

\* ------------------------------------- the notification goroutines' steps
\* SELECT follower_uid FROM follows WHERE following_uid = ?
Followers(d, u) == {v \in Users : d.follows[<<v, u>>] > 0}

\* Fault variant: the track's uploader is not compared with the actor.
OwnActionUnchecked(owner, by) == FALSE

\* if uploaderUID == likerUID { return }, and the same for a comment
OwnAction(owner, by) == owner = by

\* Fault variant: the error of the track query is not looked at and the
\* goroutine goes on for every other user.
AudienceIgnoringNoRows(d, n) ==
    IF n.kind = "upload" THEN Followers(d, n.by)
    ELSE IF TrackById(d, n.t) = {} THEN Users \ {n.by}
    ELSE {r.uid : r \in {x \in TrackById(d, n.t) : ~OwnAction(x.uid, n.by)}}

\* The recipients a goroutine resolves: the uploader's followers, or the
\* uploader of the track unless that is the actor; none when the track row
\* is not there (sql.ErrNoRows).
Audience(d, n) ==
    IF n.kind = "upload" THEN Followers(d, n.by)
    ELSE {r.uid : r \in {x \in TrackById(d, n.t) : ~OwnAction(x.uid, n.by)}}

\* shouldNotify(uid): no row reads as true, and so does a failed query.
ShouldNotify(d, v, readOk) == IF readOk THEN SettingsRead(d, v) ELSE TRUE

\* The goroutine returns.
UnitExit(n) == units' = units \ {n}
UnitMove(n, m) == units' = (units \ {n}) \cup {m}
\* The recipient at hand is done with: on to the next row, or return.
UnitNext(n, v) ==
    IF n.aud \ {v} = {} THEN UnitExit(n)
    ELSE UnitMove(n, [n EXCEPT !.pc = "check", !.aud = @ \ {v}, !.to = NoUser])

\* The first query: the followers of the uploader (with app.Auth after it),
\* or the uploader and title of the track.
UnitLookup ==
    /\ \E n \in units :
        /\ n.pc = "new"
        /\ \/ \* the query fails, or app.Auth does in the upload goroutine
              UnitExit(n)
           \/ IF Audience(db, n) = {} THEN UnitExit(n)
              ELSE UnitMove(n, [n EXCEPT !.pc = "check", !.aud = Audience(db, n)])
    /\ resp' = NoResp
    /\ UNCHANGED <<auth, db, blobs, nextUuid, rq, rmFailed>>

\* shouldNotify for the next recipient; the like and comment goroutines call
\* app.Auth after it.
UnitCheck ==
    /\ \E n \in units, v \in Users, readOk \in BOOLEAN :
        /\ n.pc = "check" /\ v \in n.aud
        /\ IF ~ShouldNotify(db, v, readOk) THEN UnitNext(n, v)
           ELSE \/ n.kind /= "upload" /\ UnitExit(n)
                \/ UnitMove(n, [n EXCEPT !.pc = "send", !.to = v])
    /\ resp' = NoResp
    /\ UNCHANGED <<auth, db, blobs, nextUuid, rq, rmFailed>>

Mail(n, sent) ==
    [NoResp EXCEPT !.op = "mail", !.u = n.by, !.t = n.t, !.to = n.to,
                   !.err = IF sent THEN "none" ELSE "smtp"]

\* Fault variant: a failed delivery turns the recipient's notifications off.
UnitSendUnsubscribing ==
    /\ \E n \in units, found \in BOOLEAN, sent \in BOOLEAN :
        /\ n.pc = "send"
        /\ resp' = IF found THEN Mail(n, sent) ELSE NoResp
        /\ db' = IF found /\ ~sent THEN UpsertSettings(db, n.to, FALSE) ELSE db
        /\ UnitNext(n, n.to)
    /\ UNCHANGED <<auth, blobs, nextUuid, rq, rmFailed>>

\* Fault variant: a failed delivery is tried again.
UnitSendRetrying ==
    /\ \E n \in units, found \in BOOLEAN, sent \in BOOLEAN :
        /\ n.pc = "send"
        /\ resp' = IF found THEN Mail(n, sent) ELSE NoResp
        /\ IF found /\ ~sent THEN units' = units ELSE UnitNext(n, n.to)
    /\ UNCHANGED <<auth, db, blobs, nextUuid, rq, rmFailed>>

\* authClient.GetUser; sendEmail when it gave an address; a failure of
\* either is logged at most.
UnitSend ==
    /\ \E n \in units, found \in BOOLEAN, sent \in BOOLEAN :
        /\ n.pc = "send"
        /\ resp' = IF found THEN Mail(n, sent) ELSE NoResp
        /\ UnitNext(n, n.to)
    /\ UNCHANGED <<auth, db, blobs, nextUuid, rq, rmFailed>>

UnitStep == UnitLookup \/ UnitCheck \/ UnitSend

\* ------------------------------------------------ POST /api/profile
\* SELECT uploader_uid FROM tracks WHERE uploader_name = ? AND uploader_uid != ?
NameTaken(d, nm, u) == \E r \in d.tracks : r.name = nm /\ r.uid /= u

\* Fault variant: the UPDATE has no WHERE clause.
RenameAllTracks(d, u, nm) ==
    [d EXCEPT !.tracks = {[r EXCEPT !.name = nm] : r \in @}]

\* UPDATE tracks SET uploader_name = ? WHERE uploader_uid = ?
RenameTracks(d, u, nm) ==
    [d EXCEPT !.tracks = {IF r.uid = u THEN [r EXCEPT !.name = nm] ELSE r : r \in @}]

\* c.Bind, the email_verified check, the checks of the name, the uniqueness read.
ProfileStart(p) ==
    /\ FreeSlot(p)
    /\ \/ \* c.Bind fails
          \E ver \in BOOLEAN :
          Finish(rq, p, [Resp("profile", 400) EXCEPT !.bad = TRUE, !.ver = ver])
       \/ \E u \in Users, nm \in Names \cup {NoName}, ver \in BOOLEAN :
          LET r == [Resp("profile", 200) EXCEPT !.u = u, !.name = nm, !.ver = ver] IN
          IF ~Verified(ver) THEN Finish(rq, p, [r EXCEPT !.code = 403])
          ELSE IF nm = NoName
          THEN \* empty after TrimSpace (or longer than 30 bytes)
               Finish(rq, p, [r EXCEPT !.code = 400])
          ELSE \/ \* the SELECT fails
                  Finish(rq, p, [r EXCEPT !.code = 500, !.err = "store"])
               \/ IF NameTaken(db, nm, u)
                  THEN Finish(rq, p, [r EXCEPT !.code = 409])
                  ELSE Goto(rq, p, [IdleRq EXCEPT !.pc = "pf_auth", !.u = u, !.name = nm,
                                                  !.ver = ver])
    /\ UNCHANGED <<auth, db, blobs, nextUuid, units, rmFailed>>

\* authClient.UpdateUser(ctx, user.UID, DisplayName(newDisplayName))
ProfileAuth(p) ==
    /\ rq[p].pc = "pf_auth"
    /\ \E ok \in BOOLEAN :
        IF ok
        THEN /\ auth' = [auth EXCEPT !.name[rq[p].u] = rq[p].name]
             /\ Goto(rq, p, [rq[p] EXCEPT !.pc = "pf_tracks"])
        ELSE /\ auth' = auth
             /\ Finish(rq, p, RespE("profile", 500, "auth"))
    /\ UNCHANGED <<db, blobs, nextUuid, units, rmFailed>>

\* db.Exec(UPDATE tracks SET uploader_name ...); 200
ProfileTracks(p) ==
    /\ rq[p].pc = "pf_tracks"
    /\ \E ok \in BOOLEAN :
        LET d == IF ok THEN RenameTracks(db, rq[p].u, rq[p].name) ELSE db IN
        /\ db' = d
        /\ Finish(MarkStale(rq, p, d /= db), p,
                  IF ok THEN Resp("profile", 200) ELSE RespE("profile", 500, "store"))
    /\ UNCHANGED <<auth, blobs, nextUuid, units, rmFailed>>

\* The user signs in again or the client refreshes the ID token: its name
\* claim becomes the display name the identity provider stores now.
TokenRefresh ==
    /\ \E u \in Users :
        /\ auth.token[u] /= auth.name[u]
        /\ auth' = [auth EXCEPT !.token[u] = auth.name[u]]
    /\ resp' = NoResp
    /\ UNCHANGED <<db, blobs, nextUuid, rq, units, rmFailed>>

\* ---------------------------------------------------- specifications
ProfileStep(p) ==
    \/ ProfileStart(p)
    \/ ProfileAuth(p)
    \/ ProfileTracks(p)

UploadStep(p) ==
    \/ UploadStart(p)
    \/ UploadInsert(p)
    \/ UploadCleanup(p)
    \/ UploadSpawn(p)

DelTrackStep(p) ==
    \/ DelTrackStart(p)
    \/ DelTrackTx(p)
    \/ DelTrackRemove(p)

DelAcctStep(p) ==
    \/ DelAcctStart(p)
    \/ DelAcctTx(p)
    \/ DelAcctRemove(p)

LikeStep(p) ==
    \/ LikeStart(p)
    \/ LikeWrite(p)
    \/ LikeReply(p)

FollowStep(p) ==
    \/ FollowStart(p)
    \/ FollowWrite(p)

\* An upload whose form is not answered 400.
PassingUploadStart(p) == UploadStart(p) /\ resp'.code /= 400

\* Uploads of forms that pass the checks and the two deletions, in any
\* interleaving.
NextBlob ==
    \/ \E p \in Procs :
        \/ PassingUploadStart(p) \/ UploadInsert(p) \/ UploadCleanup(p) \/ UploadSpawn(p)
        \/ DelTrackStep(p) \/ DelAcctStep(p)
    \/ UnitFinish

SpecBlob == Init /\ [][NextBlob]_vars

\* Uploads of every form, in any interleaving.
NextUpload ==
    \/ \E p \in Procs : UploadStep(p)
    \/ UnitFinish

SpecUpload == Init /\ [][NextUpload]_vars

\* Like and follow toggles, in any interleaving.
NextToggle ==
    \/ \E p \in Procs : LikeStep(p) \/ FollowStep(p)
    \/ UnitFinish

SpecToggle == Init /\ [][NextToggle]_vars

\* Like and follow toggles, one request at a time.
AllIdle == \A q \in Procs : rq[q].pc = "idle"
\* no request in flight and no goroutine left running
Quiet == AllIdle /\ units = {}

SeqLikeStart(p) == Quiet /\ LikeStart(p)
SeqFollowStart(p) == Quiet /\ FollowStart(p)

NextSeq ==
    \/ \E p \in Procs :
        \/ SeqLikeStart(p) \/ LikeWrite(p) \/ LikeReply(p)
        \/ SeqFollowStart(p) \/ FollowWrite(p)
    \/ UnitFinish

SpecSeq == Init /\ [][NextSeq]_vars

\* Track deletion racing the handlers that create what it removes; one upload.
FirstUploadStart(p) == nextUuid = 1 /\ UploadStart(p)

NextTrack ==
    \/ \E p \in Procs :
        \/ FirstUploadStart(p) \/ UploadInsert(p) \/ UploadCleanup(p) \/ UploadSpawn(p)
        \/ LikeStep(p) \/ CommentPost(p)
        \/ DelTrackStep(p)
    \/ UnitFinish

SpecTrack == Init /\ [][NextTrack]_vars

\* Account deletion after the handlers that create what it removes, one
\* request at a time; one upload.
SeqUploadStart(p) == Quiet /\ FirstUploadStart(p)
SeqCommentPost(p) == Quiet /\ CommentPost(p)
SeqSettingsUpdate(p) == Quiet /\ SettingsUpdate(p)
SeqDelAcctStart(p) == Quiet /\ DelAcctStart(p)

NextAcct ==
    \/ \E p \in Procs :
        \/ SeqUploadStart(p) \/ UploadInsert(p) \/ UploadCleanup(p) \/ UploadSpawn(p)
        \/ SeqLikeStart(p) \/ LikeWrite(p) \/ LikeReply(p)
        \/ SeqFollowStart(p) \/ FollowWrite(p)
        \/ SeqCommentPost(p) \/ SeqSettingsUpdate(p)
        \/ SeqDelAcctStart(p) \/ DelAcctTx(p) \/ DelAcctRemove(p)
    \/ UnitFinish

SpecAcct == Init /\ [][NextAcct]_vars

\* Display names: profile updates, uploads and track deletions, one request
\* at a time, from the state in which no user has a display name.
InitFresh ==
    /\ db = EmptyDb
    /\ blobs = {}
    /\ nextUuid = 1
    /\ rq = [p \in Procs |-> IdleRq]
    /\ resp = NoResp
    /\ units = {}
    /\ rmFailed = {}
    /\ auth = FreshAuth

SeqProfileStart(p) == Quiet /\ ProfileStart(p)
SeqNextUploadStart(p) == Quiet /\ UploadStart(p)
SeqDelTrackStart(p) == Quiet /\ DelTrackStart(p)

NextName ==
    \/ \E p \in Procs :
        \/ SeqProfileStart(p) \/ ProfileAuth(p) \/ ProfileTracks(p)
        \/ SeqNextUploadStart(p) \/ UploadInsert(p) \/ UploadCleanup(p) \/ UploadSpawn(p)
        \/ SeqDelTrackStart(p) \/ DelTrackTx(p) \/ DelTrackRemove(p)
    \/ UnitFinish
    \/ TokenRefresh

SpecName == InitFresh /\ [][NextName]_vars

\* The handlers that require a verified email, one request at a time; one
\* upload.
NextGate ==
    \/ \E p \in Procs :
        \/ SeqUploadStart(p) \/ UploadInsert(p) \/ UploadCleanup(p) \/ UploadSpawn(p)
        \/ SeqProfileStart(p) \/ ProfileAuth(p) \/ ProfileTracks(p)
        \/ SeqLikeStart(p) \/ LikeWrite(p) \/ LikeReply(p)
        \/ SeqFollowStart(p) \/ FollowWrite(p)
        \/ SeqCommentPost(p)
    \/ UnitFinish

SpecGate == Init /\ [][NextGate]_vars

\* Comments posted and deleted; the store holds up to two rows.
CommentPostTwo(p) == CommentPostWithin(p, MaxComments + 1)

NextComment ==
    \/ \E p \in Procs : CommentPostTwo(p) \/ CommentDelete(p)
    \/ UnitFinish

SpecComment == Init /\ [][NextComment]_vars

\* Both deletions after the handlers that create what they remove, one
\* request at a time; one upload.
NextDel ==
    \/ \E p \in Procs :
        \/ SeqUploadStart(p) \/ UploadInsert(p) \/ UploadCleanup(p) \/ UploadSpawn(p)
        \/ SeqLikeStart(p) \/ LikeWrite(p) \/ LikeReply(p)
        \/ SeqCommentPost(p)
        \/ SeqDelTrackStart(p) \/ DelTrackTx(p) \/ DelTrackRemove(p)
        \/ SeqDelAcctStart(p) \/ DelAcctTx(p) \/ DelAcctRemove(p)
    \/ UnitFinish

SpecDel == Init /\ [][NextDel]_vars

\* The goroutines step by step beside the requests that start them and
\* that give them their recipients; one request at a time, one upload.
\* The step starts a request that its first step does not reject.
Proceeds == AllIdle /\ (resp' = NoResp \/ resp'.code = 200)

IdleUploadStart(p) == FirstUploadStart(p) /\ Proceeds
IdleLikeStart(p) == LikeStart(p) /\ Proceeds
IdleFollowStart(p) == FollowStart(p) /\ Proceeds
IdleCommentPost(p) == CommentPost(p) /\ Proceeds
IdleSettingsUpdate(p) == SettingsUpdate(p) /\ Proceeds
IdleDelTrackStart(p) == DelTrackStart(p) /\ Proceeds

NextNotify ==
    \/ \E p \in Procs :
        \/ IdleUploadStart(p) \/ UploadInsert(p) \/ UploadCleanup(p) \/ UploadSpawn(p)
        \/ IdleLikeStart(p) \/ LikeWrite(p) \/ LikeReply(p)
        \/ IdleFollowStart(p) \/ FollowWrite(p)
        \/ IdleCommentPost(p) \/ IdleSettingsUpdate(p)
    \/ UnitStep

SpecNotify == Init /\ [][NextNotify]_vars

\* The goroutines step by step beside the deletion of the track they were
\* started for; one request at a time, one upload.
NextRace ==
    \/ \E p \in Procs :
        \/ IdleUploadStart(p) \/ UploadInsert(p) \/ UploadCleanup(p) \/ UploadSpawn(p)
        \/ IdleLikeStart(p) \/ LikeWrite(p) \/ LikeReply(p)
        \/ IdleCommentPost(p)
        \/ IdleDelTrackStart(p) \/ DelTrackTx(p) \/ DelTrackRemove(p)
    \/ UnitStep

SpecRace == Init /\ [][NextRace]_vars

\* Both deletions after the handlers that create what they remove and what
\* they must leave alone; a request starts when no other is in flight and no
\* goroutine is running, and is one its first step does not reject; up to
\* MaxUploads uploads; the preference rows written are explicit false.
Calm == Quiet /\ Proceeds

\* a user turns notifications off
CalmSettingsOff(p) ==
    SettingsUpdate(p) /\ Calm /\ (\A u \in Users : db'.settings[u] /= "on")

NextFrame ==
    \/ \E p \in Procs :
        \/ (UploadStart(p) /\ Calm) \/ UploadInsert(p) \/ UploadCleanup(p) \/ UploadSpawn(p)
        \/ (LikeStart(p) /\ Calm) \/ LikeWrite(p) \/ LikeReply(p)
        \/ (FollowStart(p) /\ Calm) \/ FollowWrite(p)
        \/ (CommentPost(p) /\ Calm) \/ CalmSettingsOff(p)
        \/ (DelTrackStart(p) /\ Calm) \/ DelTrackTx(p) \/ DelTrackRemove(p)
        \/ (DelAcctStart(p) /\ Calm) \/ DelAcctTx(p) \/ DelAcctRemove(p)
    \/ UnitFinish

SpecFrame == Init /\ [][NextFrame]_vars

\* Track deletions racing each other, after the handlers that create what
\* they remove: a deleteTrack starts beside another deleteTrack, every other
\* request starts alone; up to MaxUploads uploads.
RacingDelTrackStart(p) ==
    /\ \A q \in Procs : rq[q].pc \in {"idle", "dt_tx", "dt_rm"}
    /\ units = {}
    /\ DelTrackStart(p)

NextPair ==
    \/ \E p \in Procs :
        \/ (UploadStart(p) /\ Calm) \/ UploadInsert(p) \/ UploadCleanup(p) \/ UploadSpawn(p)
        \/ (LikeStart(p) /\ Calm) \/ LikeWrite(p) \/ LikeReply(p)
        \/ (CommentPost(p) /\ Calm)
        \/ RacingDelTrackStart(p) \/ DelTrackTx(p) \/ DelTrackRemove(p)
    \/ UnitFinish

SpecPair == Init /\ [][NextPair]_vars

\* The goroutines under a fair scheduler, beside the requests that start
\* them and give them their recipients; one request at a time, one upload.
\* Every call a goroutine makes (store, identity provider, SMTP) returns,
\* and the Go scheduler does not starve a runnable goroutine: each
\* goroutine that can take a step eventually takes one.
UnitIds == {"upload", "like"} \X Users \X ({NoTrack} \cup TargetIds)
UnitAlive(id) == \E n \in units : n.kind = id[1] /\ n.by = id[2] /\ n.t = id[3]
UnitStepOf(id) ==
    /\ UnitStep
    /\ \E n \in units \ units' : n.kind = id[1] /\ n.by = id[2] /\ n.t = id[3]

NextLive ==
    \/ \E p \in Procs :
        \/ IdleUploadStart(p) \/ UploadInsert(p) \/ UploadCleanup(p) \/ UploadSpawn(p)
        \/ IdleLikeStart(p) \/ LikeWrite(p) \/ LikeReply(p)
        \/ IdleFollowStart(p) \/ FollowWrite(p)
    \/ UnitStep

SpecLive ==
    /\ Init /\ [][NextLive]_vars
    /\ \A id \in UnitIds : WF_vars(UnitStepOf(id))

\* Every handler, in any interleaving.
Next ==
    \/ \E p \in Procs :
        \/ UploadStep(p) \/ DelTrackStep(p) \/ DelAcctStep(p)
        \/ LikeStep(p) \/ FollowStep(p)
        \/ CommentPost(p) \/ CommentDelete(p) \/ SettingsUpdate(p)
        \/ ProfileStep(p)
    \/ UnitStep
    \/ TokenRefresh

Spec == Init /\ [][Next]_vars

\* ------------------------------------------------------------ claims
ToggleAnswered(r) == r.op \in {"like", "follow"} /\ r.code = 200

RelationPresent(d, kind, u, t) ==
    IF kind = "like" THEN LikeExists(d, u, t) ELSE FollowExists(d, u, t)

RowForBlob(d, b) == \E r \in d.tracks : r.filename = b

\* C1: in every reachable state of uploads, track deletions and account
\* deletions, failed ones included, the blob named by every live Track row is
\* a file of the Blob Store.
C1_TrackBlobExists == \A r \in db.tracks : r.filename \in blobs

\* A track was deleted and its blob removed while another track is live.
C1_Witness ==
    /\ db.tracks /= {}
    /\ resp.op = "deleteTrack" /\ resp.code = 200
    /\ resp.f /= {} /\ resp.f \cap blobs = {}

\* C2: an upload is answered 200 only after its INSERT took effect, and in the
\* state that INSERT produced the blob under the generated name exists and a
\* Track row references that name.
C2_UploadSuccessHasBlobAndRow ==
    [][ /\ \A p \in Procs :
            (rq[p].pc = "up_insert" /\ rq'[p].pc = "up_spawn")
                => \A b \in rq[p].f : b \in blobs' /\ RowForBlob(db', b)
        /\ (resp'.op = "upload" /\ resp'.code = 200)
                => \E p \in Procs : rq[p].pc = "up_spawn" /\ rq'[p].pc = "idle"
      ]_vars

\* An upload was answered 200.
C2_Witness == resp.op = "upload" /\ resp.code = 200 /\ resp.f /= {}

\* C3, as claimed: when no request is in flight, every file of the Blob Store
\* is referenced by a live Track row or was left by an os.Remove that failed.
C3_NoUnreferencedBlob ==
    AllIdle => \A b \in blobs : RowForBlob(db, b) \/ b \in rmFailed

\* C4: when the INSERT of an upload fails, the handler goes to the cleanup and
\* spawns nothing; the cleanup calls os.Remove on the blob, answers 500, spawns
\* nothing and leaves no Track row with that blob name.
C4_InsertFailureCleansUp ==
    [][ \A p \in Procs :
          /\ (rq[p].pc = "up_insert" /\ rq'[p].pc \notin {"up_insert", "up_spawn"})
                => /\ rq'[p].pc = "up_cleanup"
                   /\ units' = units
                   /\ db' = db
          /\ (rq[p].pc = "up_cleanup" /\ rq'[p].pc /= "up_cleanup")
                => /\ resp'.op = "upload" /\ resp'.code = 500
                   /\ resp'.rm = rq[p].f
                   /\ units' = units
                   /\ \A b \in rq[p].f : ~RowForBlob(db', b)
      ]_vars

\* An upload whose INSERT failed was answered after its cleanup.
C4_Witness == resp.op = "upload" /\ resp.code = 500 /\ resp.rm /= {}

\* C5, as claimed: with one request at a time, every toggle answered 200 left
\* the relation in the opposite of the presence it had before the toggle, and
\* its response reports that presence (so two toggles restore the relation and
\* N toggles leave it present iff it was present XOR N is odd).
C5_TogglesAlternate ==
    ToggleAnswered(resp) =>
        /\ RelationPresent(db, resp.op, resp.u, resp.t) = ~resp.ex
        /\ resp.val = RelationPresent(db, resp.op, resp.u, resp.t)

\* C6: in every reachable state of concurrent like and follow toggles there is
\* at most one Like row per (user, track) and one Follow row per (follower,
\* followee).
C6_NoDuplicateRelationRows ==
    /\ \A x \in Users \X TrackIds : db.likes[x] <= 1
    /\ \A y \in Users \X Users : db.follows[y] <= 1

\* Of two concurrent follow toggles of one pair, the second INSERT was refused.
C6_Witness == resp.op = "follow" /\ resp.err = "unique"

\* C7, as claimed: a toggle that writes after another toggle of the same
\* (actor, target) changed the row it had read (the two ran concurrently) does
\* not attempt the INSERT of a present row and does not end in a duplicate-key
\* or write-conflict failure.
C7_ConcurrentTogglesSerialized ==
    [][ \A p \in Procs :
          /\ (/\ rq[p].pc = "lk_write" /\ rq'[p].pc /= "lk_write"
              /\ LikeExists(db, rq[p].u, rq[p].t) /= rq[p].ex)
                => resp'.err \notin {"busy", "unique"}
          /\ (/\ rq[p].pc = "fw_write" /\ rq'[p].pc /= "fw_write"
              /\ FollowExists(db, rq[p].u, rq[p].t) /= rq[p].ex)
                => resp'.err \notin {"busy", "unique"}
      ]_vars

\* C8, as claimed: a toggle is answered 200 only when its write took effect,
\* and the value it reports is the presence of the row right after that write.
C8_ToggleResponseTruthful ==
    [][ /\ \A p \in Procs :
            (rq[p].pc = "lk_write" /\ rq'[p].pc = "lk_reply")
                => LikeExists(db', rq[p].u, rq[p].t) = ~rq[p].ex
        /\ (resp'.op = "like" /\ resp'.code = 200)
                => resp'.err = "none" /\ resp'.val = ~resp'.ex
        /\ (resp'.op = "follow" /\ resp'.code = 200)
                => /\ resp'.err = "none"
                   /\ resp'.val = FollowExists(db', resp'.u, resp'.t)
      ]_vars

\* C9, as claimed: when deleteTrack is answered 200 the store holds no Track,
\* Like or Comment row of that track, and its blob is gone unless an os.Remove
\* of it failed.
C9_DeleteTrackRemovesAll ==
    (resp.op = "deleteTrack" /\ resp.code = 200) =>
        /\ TrackById(db, resp.t) = {}
        /\ \A u \in Users : db.likes[<<u, resp.t>>] = 0
        /\ \A c \in db.comments : c.track /= resp.t
        /\ \A b \in resp.f : b \in blobs => b \in rmFailed

NoFootprint(d, u) ==
    /\ TracksOf(d, u) = {}
    /\ \A t \in TrackIds : d.likes[<<u, t>>] = 0
    /\ \A c \in d.comments : c.uid /= u
    /\ \A v \in Users : d.follows[<<u, v>>] = 0 /\ d.follows[<<v, u>>] = 0
    /\ d.settings[u] = "none"
    /\ SettingsRead(d, u)

\* C10: in the state the commit of deleteAccount(U) produces, U owns no Track
\* row, has no Like, Comment or preference row, and is on neither side of any
\* Follow row.
C10_AccountFootprintGoneAtCommit ==
    [][ \A p \in Procs :
          (rq[p].pc = "da_tx" /\ rq'[p].pc = "da_rm") => NoFootprint(db', rq[p].u)
      ]_vars

\* The account deletion of a user who had uploaded has committed; another
\* user's rows are still there.
C10_Witness ==
    \E p \in Procs :
        /\ rq[p].pc = "da_rm" /\ rq[p].f /= {}
        /\ \E v \in Users : v /= rq[p].u /\ db.settings[v] /= "none"

\* C11: a deleteTrack answered by its first step, the lookup not having
\* failed, is answered 404 when no Track row has the id and 403 when the row's
\* owner is not the caller, and that step changes no row, no blob and spawns
\* nothing; a request goes on to the transaction only for the owner of a live
\* track.
C11_DeleteTrackRejects ==
    [][ /\ (resp'.op = "deleteTrack" /\ rq' = rq /\ resp'.err = "none")
              => LET rows == TrackById(db, resp'.t) IN
                 /\ rows = {} => resp'.code = 404
                 /\ rows /= {} => resp'.code = 403 /\ \A r \in rows : r.uid /= resp'.u
                 /\ db' = db /\ blobs' = blobs /\ units' = units
        /\ \A p \in Procs :
              (rq[p].pc = "idle" /\ rq'[p].pc = "dt_tx")
                  => \E r \in TrackById(db, rq'[p].t) : r.uid = rq'[p].u
      ]_vars

\* A non-owner was answered 403 and the track and its file are there.
C11_Witness ==
    /\ resp.op = "deleteTrack" /\ resp.code = 403
    /\ \E r \in TrackById(db, resp.t) : r.uid /= resp.u /\ r.filename \in blobs

\* C12, as claimed: no two Track rows of distinct owners carry the same owner
\* display name.
C12_OwnerNamesUnique ==
    \A r1 \in db.tracks, r2 \in db.tracks : r1.name = r2.name => r1.uid = r2.uid

\* C13, as claimed: a comment of a verified, named user whose request parsed
\* and whose INSERT the store did not fail is answered 400, with no row
\* inserted and nothing spawned, when its content is empty or longer than 500
\* characters, and is answered 200 with exactly one Comment row inserted when
\* its content has 1 to 500 characters.
C13_CommentLengthRule ==
    [][ (/\ resp'.op = "comment" /\ ~resp'.bad /\ resp'.ver /\ resp'.err = "none"
         /\ resp'.u /= NoUser /\ auth.token[resp'.u] /= NoName)
            => IF resp'.chars = 0 \/ resp'.chars > MaxCommentLen
               THEN resp'.code = 400 /\ db' = db /\ units' = units
               ELSE /\ resp'.code = 200
                    /\ Cardinality(db'.comments) = Cardinality(db.comments) + 1
      ]_vars

\* C14, as claimed: in the state an upload's INSERT produces, where the new
\* track is first listed, the listing reports likes_count = 0 for it and
\* is_liked = false for every caller.
C14_NewTrackUnliked ==
    [][ \A r \in db'.tracks :
          TrackById(db, r.id) = {}
              => /\ ListLikesCount(db', r.id) = 0
                 /\ \A c \in Users \cup {NoUser} : ~ListIsLiked(db', r.id, c)
      ]_vars

\* C18, as claimed: every Like row and every Comment row carries the id of a
\* live Track row.
C18_NoOrphanLikeOrComment ==
    /\ \A u \in Users, t \in TrackIds : LikeExists(db, u, t) => TrackById(db, t) /= {}
    /\ \A c \in db.comments : TrackById(db, c.track) /= {}

\* C15: the commit of deleteAccount(A) lowers the like count the listing
\* reports for every live track of another owner by exactly A's like on it,
\* leaves is_liked false for A on it, and leaves every other user's like on it
\* as it was.
C15_AccountDeletionRemovesOwnLikesOnly ==
    [][ \A p \in Procs :
          (rq[p].pc = "da_tx" /\ rq'[p].pc = "da_rm")
              => \A r \in db.tracks :
                    r.uid /= rq[p].u
                        => /\ ListLikesCount(db', r.id) = ListLikesCount(db, r.id)
                                 - (IF LikeExists(db, rq[p].u, r.id) THEN 1 ELSE 0)
                           /\ ~ListIsLiked(db', r.id, rq[p].u)
                           /\ \A v \in Users \ {rq[p].u} :
                                 LikeExists(db', v, r.id) = LikeExists(db, v, r.id)
      ]_vars

\* deleteAccount(A) has read its snapshot and can commit while A's like and
\* another user's like on a live track of another owner are in the store.
C15_Witness ==
    \E p \in Procs :
        /\ rq[p].pc = "da_tx" /\ ~rq[p].stale
        /\ \E r \in db.tracks :
              /\ r.uid /= rq[p].u
              /\ LikeExists(db, rq[p].u, r.id)
              /\ \E v \in Users \ {rq[p].u} : LikeExists(db, v, r.id)

\* C16: no Follow row has follower = followee; a follow toggle whose target is
\* the caller is answered 400 without having read or written the store (it is
\* never at the write, and it is not answered with the failure of a read).
C16_NoSelfFollow ==
    /\ \A u \in Users : db.follows[<<u, u>>] = 0
    /\ \A p \in Procs : rq[p].pc = "fw_write" => rq[p].u /= rq[p].t
    /\ (resp.op = "follow" /\ resp.u /= NoUser /\ resp.u = resp.t)
          => resp.code = 400 /\ resp.err = "none"

\* A follow of oneself was answered 400.
C16_Witness == resp.op = "follow" /\ resp.code = 400 /\ resp.u /= NoUser /\ resp.u = resp.t

GatedOps == {"upload", "profile", "like", "follow", "comment"}

\* The step answered a request whose token does not carry email_verified = true.
UnverifiedAnswered == resp'.op \in GatedOps /\ ~resp'.ver

\* The step changed no row, no blob, no display name and spawned nothing.
NothingChanged ==
    db' = db /\ blobs' = blobs /\ units' = units /\ auth' = auth /\ rq' = rq

\* C17, as claimed: a request to one of the five handlers by a caller whose
\* email is not verified is answered 403 and changes nothing.
C17_UnverifiedForbidden ==
    [][ UnverifiedAnswered => resp'.code = 403 /\ NothingChanged ]_vars

\* C17, amended: such a request is rejected by the handler's first step and
\* changes nothing; it is answered 403, except that it is answered 400 when its
\* path id or body does not parse (like, comment, profile) or when it is a
\* follow of the caller themselves, checks the handlers make first.
C17_UnverifiedRejected ==
    [][ UnverifiedAnswered
          => /\ resp'.code = IF resp'.bad \/ (resp'.op = "follow" /\ resp'.u = resp'.t)
                             THEN 400 ELSE 403
             /\ NothingChanged
      ]_vars

\* An unverified caller's like of a listed track that another user likes
\* was answered 403.
C17_Witness ==
    /\ resp.op = "like" /\ ~resp.ver /\ resp.code = 403
    /\ db.tracks /= {}
    /\ \E v \in Users \ {resp.u}, t \in TargetIds : LikeExists(db, v, t)

\* C19: in deleteTrack and deleteAccount a blob is deleted only after the
\* transaction that removes its Track row has committed. A step that deletes
\* a blob for one of the two handlers is taken by a request that is past its
\* commit, deletes only a file that request captured, and finds no Track row
\* naming that file in the store; a request enters the deletion step only
\* by a commit after which none of its captured files has a Track row; and
\* a request whose statement or commit fails ends there with every blob kept.
DeletionOps == {"deleteTrack", "deleteAccount"}
RemovingPcs == {"dt_rm", "da_rm"}
TxPcs == {"dt_tx", "da_tx"}
HasTrackRow(d, fn) == \E r \in d.tracks : r.filename = fn

C19_BlobDeletedAfterCommit ==
    [][ /\ \A p \in Procs :
            /\ (rq[p].pc \in RemovingPcs /\ rq'[p] /= rq[p])
                 => \A b \in blobs \ blobs' : b \in rq[p].f /\ ~HasTrackRow(db, b)
            /\ (rq[p].pc \in TxPcs /\ rq'[p].pc \in RemovingPcs)
                 => \A b \in rq'[p].f : ~HasTrackRow(db', b)
            /\ (rq[p].pc \in TxPcs /\ rq'[p].pc \notin TxPcs \cup RemovingPcs)
                 => /\ blobs' = blobs
                    /\ rq'[p].pc = "idle"
                    /\ resp'.op \in DeletionOps /\ resp'.code = 500
            /\ (rq[p].pc \notin RemovingPcs /\ rq'[p].pc \in RemovingPcs)
                 => rq[p].pc \in TxPcs
        /\ (blobs \ blobs' /= {} /\ \A p \in Procs : rq[p].pc \in RemovingPcs => rq'[p] = rq[p])
             => \E p \in Procs : rq[p].pc = "up_cleanup" /\ rq'[p] /= rq[p] ]_vars

\* A deleteTrack was answered 200 after removing the blob it captured, and
\* another user's blob is still there.
C19_Witness ==
    /\ resp.op = "deleteTrack" /\ resp.code = 200
    /\ resp.rm /= {} /\ resp.rm \cap blobs = {}
    /\ blobs /= {}

\* C20: the metadata effect of deleteTrack and of deleteAccount is all or
\* nothing. A request whose statement or commit fails is answered 500 by a
\* step that leaves every row and every blob as they were, as did the step
\* that began the request; a request that passes its commit leaves no Track
\* row it set out to remove and no like or comment on such a track.
CapturedIds(d, r) ==
    IF r.pc = "dt_tx" THEN {r.t} ELSE {x.id : x \in {y \in d.tracks : y.uid = r.u}}

C20_DeletionAllOrNothing ==
    [][ /\ \A p \in Procs :
            /\ (rq[p].pc \in TxPcs /\ rq'[p].pc \notin TxPcs \cup RemovingPcs)
                 => /\ resp'.op = (IF rq[p].pc = "dt_tx" THEN "deleteTrack" ELSE "deleteAccount")
                    /\ resp'.code = 500
                    /\ db' = db /\ blobs' = blobs
            /\ (rq[p].pc = "idle" /\ rq'[p].pc \in TxPcs)
                 => db' = db /\ blobs' = blobs
            /\ (rq[p].pc \in TxPcs /\ rq'[p].pc \in RemovingPcs)
                 => \A t \in CapturedIds(db, rq[p]) :
                        /\ TrackById(db', t) = {}
                        /\ \A u \in Users : ~LikeExists(db', u, t)
                        /\ \A c \in db'.comments : c.track /= t
        /\ (resp'.op \in DeletionOps /\ resp'.code = 500)
             => db' = db /\ blobs' = blobs ]_vars

\* A deleteTrack failed in its transaction and the track, its blob and a
\* like and a comment on it are all still there.
C20_Witness ==
    /\ resp.op = "deleteTrack" /\ resp.code = 500 /\ resp.t /= NoTrack
    /\ \E r \in TrackById(db, resp.t) : r.filename \in blobs
    /\ \E u \in Users : LikeExists(db, u, resp.t)
    /\ \E c \in db.comments : c.track = resp.t

C22_NoRowsOnDeletedOwnersTracks ==
    [][ \A p \in Procs :
          (rq[p].pc = "da_tx" /\ rq'[p].pc = "da_rm")
              => \A t \in TrackIdsOf(db, rq[p].u) :
                    /\ \A v \in Users : ~LikeExists(db', v, t)
                    /\ \A c \in db'.comments : c.track /= t
                    /\ TrackById(db', t) = {}
      ]_vars

\* deleteAccount(U) has read its snapshot and can commit while another
\* user's like and another user's comment are on a track of U.
C22_Witness ==
    \E p \in Procs :
        /\ rq[p].pc = "da_tx" /\ ~rq[p].stale
        /\ \E t \in TrackIdsOf(db, rq[p].u) :
              /\ \E v \in Users \ {rq[p].u} : LikeExists(db, v, t)
              /\ \E c \in db.comments : c.track = t /\ c.uid /= rq[p].u

\* C23: no request holds an open metadata transaction while it writes or
\* deletes a blob. A step that creates, writes or removes a file runs no
\* statement on the store, and the request taking it has no transaction
\* open before or after it: upload writes the file before its INSERT and
\* removes it after the INSERT failed, the deletions remove files after
\* their transaction ended.
TxOpen(r) == r.pc \in TxPcs \cup {"lk_write"}
BlobStepPcs == {"up_cleanup", "dt_rm", "da_rm"}
BlobStep(p) ==
    \/ rq[p].pc \in BlobStepPcs /\ rq'[p] /= rq[p]
    \/ rq[p].pc = "idle" /\ FreeSlot(p) /\ (rq'[p].pc = "up_insert" \/ resp'.op = "upload")

C23_NoTransactionSpansBlobOperation ==
    [][ /\ (blobs' /= blobs) => \E p \in Procs : BlobStep(p)
        /\ (blobs' /= blobs) => db' = db
        /\ \A p \in Procs :
              BlobStep(p) => /\ db' = db
                             /\ ~TxOpen(rq[p]) /\ ~TxOpen(rq'[p]) ]_vars

\* An upload removed its file after its INSERT failed while an account
\* deletion holds its transaction open.
C23_Witness ==
    /\ resp.op = "upload" /\ resp.code = 500
    /\ resp.rm /= {} /\ resp.rm \cap blobs = {}
    /\ \E q \in Procs : rq[q].pc = "da_tx"

\* C24: an upload rejected for validation is rejected before any mutation.
\* An upload answered 400 wrote no blob, inserted no row, spawned no
\* goroutine and drew no file name; a form with a missing title, a title or
\* artist over 100 characters, lyrics over 10000 characters, no file, a file
\* over 15MB, an extension other than mp3 or a denied content type is
\* answered 400 by a caller who passed the token checks, and never reaches
\* the file write.
UploadDefective(v) ==
    \/ v.title.chars = 0
    \/ v.title.chars > MaxTitleLen
    \/ v.artist.chars > MaxArtistLen
    \/ v.lyrics.chars > MaxLyricsLen
    \/ ~v.file
    \/ v.size > MaxFileSize
    \/ v.ext \notin {"mp3", "MP3"}
    \/ v.sig \in DeniedTypes

C24_ValidationRejectsBeforeMutation ==
    [][ /\ (resp'.op = "upload" /\ resp'.code = 400)
             => /\ db' = db /\ blobs' = blobs /\ units' = units
                /\ nextUuid' = nextUuid /\ rq' = rq
        /\ (resp'.op = "upload" /\ resp'.form /= NoForm /\ UploadDefective(Form(resp'.form)))
             => resp'.code = 400
        /\ \A p \in Procs :
              (rq[p].pc = "idle" /\ rq'[p].pc = "up_insert")
                  => ~UploadDefective(Form(rq'[p].form)) ]_vars

\* A form with a denied content type was answered 400 while a track and
\* its blob are stored and another upload is in flight.
C24_Witness ==
    /\ resp.op = "upload" /\ resp.code = 400 /\ resp.form = "html"
    /\ \E r \in db.tracks : r.filename \in blobs
    /\ \E q \in Procs : rq[q].pc = "up_insert"

\* C25: a like toggle starts a notification goroutine if and only if it
\* committed an absent-to-present transition, and only after the commit. A
\* like goroutine appears only in the reply step of a toggle that read the
\* like absent; that step is reached only by a commit which, for such a
\* toggle, took the like from absent to present; the reply step of a toggle
\* that turned the like off starts none; a toggle whose statement or commit
\* failed ends with 500, the store unchanged and no goroutine started.
KindUnits(U, kind) == {n \in U : n.kind = kind}

C25_LikeUnitIffToggledOn ==
    [][ /\ \A p \in Procs :
            /\ (rq[p].pc = "lk_reply" /\ rq'[p].pc = "idle")
                 => /\ units' \ units = (IF rq[p].ex THEN {} ELSE {LikeUnit(rq[p].u, rq[p].t)})
                    /\ ~rq[p].ex => LikeUnit(rq[p].u, rq[p].t) \notin units
                    /\ resp'.code = 200 /\ resp'.val = ~rq[p].ex
            /\ (rq[p].pc = "lk_write" /\ rq'[p].pc = "lk_reply")
                 => /\ units' = units
                    /\ LikeExists(db, rq[p].u, rq[p].t) = rq[p].ex
                    /\ LikeExists(db', rq[p].u, rq[p].t) = ~rq[p].ex
            /\ (rq[p].pc = "lk_write" /\ rq'[p].pc = "idle")
                 => units' = units /\ db' = db /\ resp'.code = 500
            /\ rq'[p].pc = "lk_reply" => rq[p].pc \in {"lk_write", "lk_reply"}
        /\ (KindUnits(units', "like") \ KindUnits(units, "like") /= {})
             => \E p \in Procs : rq[p].pc = "lk_reply" /\ rq'[p].pc = "idle" /\ ~rq[p].ex ]_vars

\* A toggle that turned a like on was answered and its goroutine is
\* running, while the other user's like on the track is in the store.
C25_Witness ==
    /\ resp.op = "like" /\ resp.code = 200 /\ resp.val
    /\ LikeUnit(resp.u, resp.t) \in units
    /\ \E v \in Users \ {resp.u} : LikeExists(db, v, resp.t)

\* C26: every notification goroutine is started after the mutation that
\* triggered it was committed. An upload goroutine starts in the step after
\* the INSERT of the uploader's track row succeeded, a like goroutine in the
\* step after the commit that turned the like on, a comment goroutine in
\* the step whose INSERT put the comment in the store; no other step
\* starts a goroutine.
C26_UnitsFollowCommit ==
    [][ /\ \A n \in units' \ units :
              n.pc = "new"
                  => \/ /\ n.kind = "upload"
                        /\ \E p \in Procs : /\ rq[p].pc = "up_spawn" /\ rq'[p].pc = "idle"
                                             /\ rq[p].u = n.by
                     \/ /\ n.kind = "like"
                        /\ \E p \in Procs : /\ rq[p].pc = "lk_reply" /\ rq'[p].pc = "idle"
                                             /\ rq[p].u = n.by /\ rq[p].t = n.t
                     \/ /\ n.kind = "comment"
                        /\ \E c \in db'.comments :
                              /\ c.id \notin {x.id : x \in db.comments}
                              /\ c.uid = n.by /\ c.track = n.t
        /\ \A p \in Procs :
              /\ (rq'[p].pc = "up_spawn" /\ rq[p].pc /= "up_spawn")
                   => /\ rq[p].pc = "up_insert"
                      /\ \E r \in db'.tracks :
                            /\ TrackById(db, r.id) = {}
                            /\ r.uid = rq[p].u /\ r.filename \in rq[p].f
              /\ (rq'[p].pc = "lk_reply" /\ rq[p].pc /= "lk_reply")
                   => /\ rq[p].pc = "lk_write"
                      /\ ~rq[p].ex => (~LikeExists(db, rq[p].u, rq[p].t)
                                        /\ LikeExists(db', rq[p].u, rq[p].t)) ]_vars

\* An upload was answered 200, its goroutine is running and the track row
\* it was started for is in the store.
C26_Witness ==
    /\ resp.op = "upload" /\ resp.code = 200
    /\ UploadUnit(resp.u) \in units
    /\ \E r \in db.tracks : r.uid = resp.u /\ r.filename \in resp.f

\* C27: no notification goroutine attempts delivery to the user whose
\* action started it. The actor is never among the recipients a goroutine
\* resolved, never the recipient it is about to mail, and never the
\* recipient of a delivery attempt.
C27_ActorNeverNotified ==
    /\ resp.op = "mail" => (resp.to \in Users /\ resp.to /= resp.u)
    /\ \A n \in units : n.by \notin n.aud /\ n.to /= n.by

\* A delivery was attempted for a like or comment on a track that its
\* uploader has liked too.
C27_Witness ==
    /\ resp.op = "mail" /\ resp.t /= NoTrack
    /\ \E r \in TrackById(db, resp.t) : LikeExists(db, r.uid, r.id) /\ resp.to = r.uid

\* C28: a notification goroutine attempts delivery to a recipient only if,
\* when it checks, the recipient's notification preference is not
\* explicitly false; no preference row counts as true. A goroutine goes on
\* to mail a recipient only in a step in which the recipient's preference
\* row is absent or true, and a delivery is attempted only by a goroutine
\* that went on so.
C28_DeliveryRespectsPreference ==
    [][ /\ \A m \in units' \ units :
              m.pc = "send" => /\ db.settings[m.to] /= "off"
                               /\ SettingsRead(db, m.to)
        /\ resp'.op = "mail"
              => \E n \in units : n.pc = "send" /\ n.to = resp'.to /\ n.by = resp'.u ]_vars

\* C29: a notification goroutine never changes stored state and never
\* changes the outcome of the request that started it. A step of a
\* goroutine, whether a lookup fails, no address is found or the delivery
\* fails, leaves the store, the files, the identity provider and every
\* request as they were and writes no response; and the response of the
\* request that starts a goroutine is the 200 written in the step that
\* starts it, or by that request alone afterwards.
UnitActed == units \ units' /= {}

C29_UnitsChangeNothing ==
    [][ /\ (UnitActed \/ resp'.op = "mail")
             => /\ db' = db /\ blobs' = blobs /\ auth' = auth /\ nextUuid' = nextUuid
                /\ rq' = rq
                /\ resp'.op \in {"none", "mail"} /\ resp'.code = 0
        /\ (units' \ units /= {} /\ ~UnitActed)
             => /\ resp'.code = 200
                /\ resp'.op \in {"upload", "like", "comment"} ]_vars

\* The delivery to a follower of an uploader failed while the uploader's
\* track is in the store.
C29_Witness ==
    /\ resp.op = "mail" /\ resp.err = "smtp" /\ resp.t = NoTrack
    /\ \E r \in db.tracks : r.uid = resp.u
    /\ FollowExists(db, resp.to, resp.u)

\* C30: a like or comment goroutine whose track was deleted before its
\* lookup finds nothing and returns without a delivery attempt, and so does
\* an upload goroutine whose follower query returns no rows. The first
\* step of such a goroutine ends it with no delivery and nothing else
\* changed, and every delivery attempt comes from a goroutine that had
\* resolved its recipient.
NothingToResolve(d, n) ==
    IF n.kind = "upload" THEN Followers(d, n.by) = {} ELSE TrackById(d, n.t) = {}

C30_UnitExitsQuietly ==
    [][ /\ \A n \in units \ units' :
              (n.pc = "new" /\ NothingToResolve(db, n))
                  => /\ units' = units \ {n}
                     /\ resp' = NoResp
                     /\ db' = db /\ blobs' = blobs /\ rq' = rq
        /\ resp'.op = "mail"
              => \E n \in units : n.pc = "send" /\ n.to = resp'.to /\ n.aud /= {} ]_vars

\* A deleteTrack was answered 200 while the goroutine of a like or comment
\* on that track has not made its lookup yet.
C30_Witness ==
    /\ resp.op = "deleteTrack" /\ resp.code = 200
    /\ \E n \in units :
          /\ n.kind \in {"like", "comment"} /\ n.pc = "new"
          /\ n.t = resp.t /\ n.by /= resp.u
          /\ TrackById(db, n.t) = {}

\* C31: every notification goroutine eventually terminates and makes at
\* most one delivery attempt per resolved recipient. A goroutine that has
\* resolved its recipients never gains one; a delivery attempt is made for
\* the recipient at hand, and whether it succeeds or fails that recipient
\* is not looked at again; and every goroutine that is running is
\* eventually gone.
C31_UnitsTerminateOneAttempt ==
    /\ [][ /\ \A n \in units \ units' :
                \A m \in units' \ units :
                    /\ m.kind = n.kind /\ m.by = n.by /\ m.t = n.t
                    /\ n.pc /= "new" => m.aud \subseteq n.aud
                    /\ n.pc = "send" => (m.pc = "check" /\ n.to \notin m.aud)
                    /\ m.pc /= "new"
           /\ resp'.op = "mail"
                 => \E n \in units \ units' : n.pc = "send" /\ resp'.to = n.to ]_vars
    /\ \A id \in UnitIds : UnitAlive(id) ~> ~UnitAlive(id)

\* A delivery failed and the goroutine that attempted it is gone.
C31_Witness ==
    /\ resp.op = "mail" /\ resp.err = "smtp"
    /\ units = {}
    /\ \A p \in Procs : rq[p].pc = "idle"

\* C32: a blob deletion that fails after a committed deleteTrack or
\* deleteAccount is not surfaced and not retried. The step of deleteTrack
\* after its commit attempts the captured file once and answers 200
\* whether the file went or not; each step of deleteAccount after its
\* commit attempts one captured file and drops it from the files still to
\* attempt whether it went or not, and the 200 is written when none is
\* left; none of these steps touches the store, so the rows stay deleted.
C32_FailedBlobDeletionTolerated ==
    [][ \A p \in Procs :
          /\ (rq[p].pc = "dt_rm" /\ rq'[p] /= rq[p])
               => /\ rq'[p].pc = "idle"
                  /\ resp'.op = "deleteTrack" /\ resp'.code = 200
                  /\ blobs' = blobs \/ blobs' = blobs \ rq[p].f
                  /\ db' = db /\ TrackById(db', rq[p].t) = {}
          /\ (rq[p].pc = "da_rm" /\ rq'[p] /= rq[p] /\ rq[p].f /= {})
               => /\ rq'[p].pc = "da_rm"
                  /\ \E fn \in rq[p].f :
                        /\ rq'[p].f = rq[p].f \ {fn}
                        /\ blobs' = blobs \/ blobs' = blobs \ {fn}
                  /\ db' = db /\ \A fn \in rq[p].f : ~HasTrackRow(db', fn)
          /\ (rq[p].pc = "da_rm" /\ rq'[p] /= rq[p] /\ rq[p].f = {})
               => /\ rq'[p].pc = "idle"
                  /\ resp'.op = "deleteAccount" /\ resp'.code = 200
                  /\ db' = db /\ blobs' = blobs ]_vars

\* deleteAccount was answered 200 although a file it tried to remove is
\* still there, with no Track row, and another file of the user is gone.
C32_Witness ==
    /\ resp.op = "deleteAccount" /\ resp.code = 200
    /\ TracksOf(db, resp.u) = {}
    /\ rmFailed \cap blobs /= {}
    /\ \A b \in rmFailed : ~HasTrackRow(db, b)
    /\ \E b \in BlobNames : b < nextUuid /\ b \notin blobs

\* C33: when a profile update of U to N is answered 200, every Track row
\* owned by U carries N, every Track row of another owner is as it was and
\* no row was added or removed; a profile update answered 400 or 409
\* changed no row and not the display name the identity provider stores.
C33_RenameCoversOwnTracksOnly ==
    [][ /\ (resp'.op = "profile" /\ resp'.code = 200)
             => /\ \A r \in db'.tracks :
                      /\ r.uid = resp'.u => r.name = resp'.name
                      /\ r.uid /= resp'.u => r \in db.tracks
                /\ {[r EXCEPT !.name = NoName] : r \in db'.tracks}
                      = {[r EXCEPT !.name = NoName] : r \in db.tracks}
                /\ [db' EXCEPT !.tracks = {}] = [db EXCEPT !.tracks = {}]
        /\ (resp'.op = "profile" /\ resp'.code \in {400, 409})
             => db' = db /\ auth' = auth /\ rq' = rq ]_vars

\* A rename was answered 200 while the user and another user each own a
\* track, and the other user's track carries another name.
C33_Witness ==
    /\ resp.op = "profile" /\ resp.code = 200
    /\ \E r \in db.tracks : r.uid = resp.u
    /\ \E r \in db.tracks : r.uid /= resp.u /\ r.name /= resp.name

\* C34: when a profile update of U to N is answered 200, every Comment row
\* authored by U and every Track row owned by U carries the name N.
C34_RenameCoversComments ==
    [][ (resp'.op = "profile" /\ resp'.code = 200)
            => /\ \A c \in db'.comments : c.uid = resp'.u => c.name = resp'.name
               /\ \A r \in db'.tracks : r.uid = resp'.u => r.name = resp'.name ]_vars

\* What the listing reports for every track is what the Like rows say.
ListingDerived ==
    \A t \in TargetIds :
        /\ ListLikesCount(db, t) = Cardinality({u \in Users : LikeExists(db, u, t)})
        /\ \A u \in Users : ListIsLiked(db, t, u) = LikeExists(db, u, t)
        /\ ~ListIsLiked(db, t, NoUser)

\* C35: in every state the listing's likes_count of a track is the number of
\* its Like rows and is_liked is the existence of the caller's Like row
\* (false for an anonymous caller); with one request at a time, so that no
\* other toggle commits between a toggle's commit and its count query, the
\* likes_count a toggle returns with 200 is the number of Like rows of its
\* track after the toggle.
C35_LikeCountsDerived ==
    [][ /\ ListingDerived /\ ListingDerived'
        /\ (resp'.op = "like" /\ resp'.code = 200)
              => resp'.n = LikeCount(db', resp'.t) ]_vars

\* C36: a DELETE /api/comment/:id whose statement does not fail is answered
\* 200 exactly when a row with that id authored by the caller exists, and
\* then removes that one row and nothing else; for a row of another author
\* or an id no row has it is answered 403; no answer other than 200 goes
\* with a change of the store.
C36_CommentDeletedOnlyByAuthor ==
    [][ resp'.op = "uncomment" =>
          LET own == {c \in db.comments : c.id = resp'.t /\ c.uid = resp'.u} IN
          /\ (own /= {} /\ resp'.err = "none")
                => /\ resp'.code = 200
                   /\ Cardinality(own) = 1
                   /\ db' = [db EXCEPT !.comments = @ \ own]
          /\ (own = {} /\ resp'.err = "none" /\ ~resp'.bad)
                => resp'.code = 403
          /\ resp'.code /= 200 => db' = db ]_vars

\* An author's delete was answered 200 and a row of another author, which
\* the same request could have named, is still there.
C36_Witness ==
    /\ resp.op = "uncomment" /\ resp.code = 200
    /\ \E c \in db.comments : c.uid /= resp.u

\* The blob names in use: those of Track rows, of files of the Blob Store
\* and those requests in flight hold.
NamesInUse(d, b, r) ==
    {x.filename : x \in d.tracks} \cup b \cup UNION {r[q].f : q \in Procs}

UniqueBlobRefs(d) ==
    \A x \in d.tracks : \A y \in d.tracks : x.filename = y.filename => x = y

\* C37: uploads and both deletions in any interleaving never leave two Track
\* rows with the same blob reference; every name in use was generated
\* earlier, and the one name an upload brings into use is the generator's
\* next value, whoever uploads and whatever the form says.
C37_BlobRefsUniqueAndFresh ==
    [][ /\ UniqueBlobRefs(db) /\ UniqueBlobRefs(db')
        /\ \A x \in NamesInUse(db, blobs, rq) : x < nextUuid
        /\ \A x \in NamesInUse(db', blobs', rq') : x < nextUuid'
        /\ nextUuid' /= nextUuid
              => (NamesInUse(db', blobs', rq') \cup resp'.f)
                     \ NamesInUse(db, blobs, rq) = {nextUuid} ]_vars

\* Two Track rows of one owner, uploaded with the same form, are live.
C37_Witness ==
    \E x \in db.tracks : \E y \in db.tracks : x /= y /\ x.uid = y.uid

\* The blobs a step removes.
Removed == blobs \ blobs'

\* What the steps of deleteTrack and deleteAccount leave as it was.  With
\* inbound, the Follow rows in which the deleted user is the followee are
\* among the rows deleteAccount is said to leave.
DeletionFrame(inbound) ==
    \A p \in Procs :
        /\ (rq[p].pc = "dt_tx" /\ rq'[p].pc /= "dt_tx")
              => LET t == rq[p].t IN
                 /\ db'.tracks \subseteq db.tracks
                 /\ \A r \in db.tracks : r.id /= t => r \in db'.tracks
                 /\ \A x \in Users \X TrackIds : x[2] /= t => db'.likes[x] = db.likes[x]
                 /\ db'.comments \subseteq db.comments
                 /\ \A c \in db.comments : c.track /= t => c \in db'.comments
                 /\ db'.follows = db.follows /\ db'.settings = db.settings
                 /\ blobs' = blobs
        /\ (rq[p].pc = "dt_rm" /\ rq'[p].pc /= "dt_rm")
              => /\ db' = db
                 /\ Removed \subseteq rq[p].f
                 /\ \A r \in db.tracks : r.id /= rq[p].t => r.filename \notin Removed
        /\ (rq[p].pc = "da_tx" /\ rq'[p].pc /= "da_tx")
              => LET u == rq[p].u
                     own == TrackIdsOf(db, u)
                 IN
                 /\ db'.tracks \subseteq db.tracks
                 /\ \A r \in db.tracks : r.uid /= u => r \in db'.tracks
                 /\ \A x \in Users \X TrackIds :
                       (x[1] /= u /\ x[2] \notin own) => db'.likes[x] = db.likes[x]
                 /\ db'.comments \subseteq db.comments
                 /\ \A c \in db.comments :
                       (c.uid /= u /\ c.track \notin own) => c \in db'.comments
                 /\ \A x \in Users \X Users :
                       (x[1] /= u /\ (inbound \/ x[2] /= u))
                           => db'.follows[x] = db.follows[x]
                 /\ \A v \in Users : v /= u => db'.settings[v] = db.settings[v]
                 /\ blobs' = blobs
        /\ (rq[p].pc = "da_rm" /\ rq'[p] /= rq[p])
              => /\ db' = db
                 /\ Removed \subseteq rq[p].f
                 /\ \A r \in db.tracks : r.uid /= rq[p].u => r.filename \notin Removed

\* C38 as stated: the transaction and the file removal of deleteTrack(T)
\* leave every Track, Like and Comment row not of T, every Follow and
\* preference row and every blob but T's as they were; those of
\* deleteAccount(U) leave every row neither made by U nor attached to a
\* track of U, and every blob not of a track of U, as they were.
C38_DeletionFrameAsStated == [][DeletionFrame(TRUE)]_vars

\* C38, amended: as above, where for deleteAccount(U) the Follow rows left
\* as they were are those in which U is neither follower nor followee.
C38_DeletionFrame == [][DeletionFrame(FALSE)]_vars

\* deleteAccount(U) is removing U's blobs after its commit while a track of
\* another user, a comment on it and that user's preference row are live.
C38_Witness ==
    \E p \in Procs :
        /\ rq[p].pc = "da_rm" /\ rq[p].f /= {}
        /\ \E r \in db.tracks : \E c \in db.comments : c.track = r.id
        /\ \E v \in Users : db.settings[v] /= "none"

\* Nothing of track t is left: no Track, Like or Comment row, and of the
\* blobs F none but one an os.Remove failed on.
TrackGone(d, b, failed, t, F) ==
    /\ TrackById(d, t) = {}
    /\ \A u \in Users : ~LikeExists(d, u, t)
    /\ \A c \in d.comments : c.track /= t
    /\ \A fn \in F : fn \in b => fn \in failed

\* C39: with deleteTrack requests of the owner for one track in flight
\* together, each commit and each 200 leaves no Track, Like or Comment row
\* of the track and its blob absent unless an os.Remove on it failed, as one
\* deletion does; the steps of each leave every other track's rows and blob
\* as they were; and a deleteTrack that starts when the row is gone and
\* whose lookup does not fail is answered 404.
C39_RacingDeletionsAsOne ==
    [][ /\ \A p \in Procs :
              (rq[p].pc = "dt_tx" /\ rq'[p].pc = "dt_rm")
                  => TrackGone(db', {}, {}, rq[p].t, {})
        /\ (resp'.op = "deleteTrack" /\ resp'.code = 200)
              => TrackGone(db', blobs', rmFailed', resp'.t, resp'.f)
        /\ DeletionFrame(FALSE)
        /\ (resp'.op = "deleteTrack" /\ rq' = rq /\ resp'.err = "none"
               /\ TrackById(db, resp'.t) = {})
              => resp'.code = 404 ]_vars

\* Two deleteTrack requests for the same track have both passed the
\* authorization read and committed, neither has removed the blob yet, and
\* another track is live.
C39_Witness ==
    /\ \E t \in TrackIds : \A p \in Procs : rq[p].pc = "dt_rm" /\ rq[p].t = t
    /\ db.tracks /= {}

====
